---- MODULE Spec2Model ----
(***************************************************************************)
(* HSE incident analyzer: the hierarchy-diagram core.                      *)
(*                                                                         *)
(*   - the Diagram Generator (IncidentRepository.generateGenericData),     *)
(*   - the Depth Assigner (HierarchyDiagramComponent.assignDisplayLevels), *)
(*   - the Diagram Editor (IncidentEditModalComponent).                    *)
(*                                                                         *)
(* A text is a sequence of one-character strings, so that length, trim and *)
(* substring are computed as the code computes them.  A TreeNodeData is a  *)
(* record with the fields key and name, and the field parent only when the *)
(* object has that property; Undefined is the value JavaScript gives for a *)
(* property that is missing or was set to undefined.                       *)
(***************************************************************************)
EXTENDS Integers, Sequences, FiniteSets, TLC

VARIABLES
  genIncident,   \* generator harness: the incident text of the call under study
  genLevel,      \* generator harness: its level
  genOut,        \* generator harness: what the call returned (<<>> before it)
  genAgain,      \* generator harness: what a later call with the same arguments returned
  genCalls,      \* number of fakeApiCall invocations made so far
  depthIn,       \* depth assigner harness: the list handed to updateDiagram
  depthOut,      \* depth assigner harness: the model data it produced
  depthDone,     \* depth assigner harness: TRUE once updateDiagram has run
  isOpen,              \* edit modal: isOpen signal
  incident,            \* edit modal: the incident input (NoIncident for null)
  formDescription,     \* edit modal: editForm control description
  formLevel,           \* edit modal: editForm control analysisLevel
  diagramData,         \* edit modal: diagramData signal
  editingNodeId,       \* edit modal: editingNodeId signal (NoKey for null)
  originalLevel,       \* edit modal: originalLevel signal
  isGeneratingDiagram, \* edit modal: isGeneratingDiagram signal
  diagramError,        \* edit modal: diagramError signal
  canRegenerateMemo,   \* edit modal: memoized value of the computed canRegenerateDiagram
  genPending,          \* edit modal: lists of the generateDiagram calls still delayed
  levelTimers,         \* edit modal: setTimeout callbacks of onLevelChange not yet run
  lastOp,              \* edit modal: the handler that ran last, with the text it was given
  ops,                 \* edit modal: user operations made so far
  diagramSource,       \* edit modal: where the list being edited came from
  levelCall,           \* level harness: the last generation request, with the level
                       \* that reached the generator
  incidentsData,       \* repository: incidentsData (incidents, diagrams, stats)
  storeTasks,          \* repository: the delayed tasks subscribed and not yet resolved
  storeLast,           \* repository: the step made last, with its outcome
  storeOps,            \* repository: calls made by the pages so far
  renderData,          \* hierarchy diagram: the data input handed to updateDiagram
  renderShapes,        \* hierarchy diagram: the node shapes with their bound fill
  mainPage,            \* main page: form controls and fields of MainPage
  mainTasks,           \* main page: delayed requests and timers not yet run
  mainLast,            \* main page: the handler or callback that ran last
  mainOps              \* main page: user operations made so far

genVars == <<genIncident, genLevel, genOut, genAgain, genCalls>>

depthVars == <<depthIn, depthOut, depthDone>>

editVars == <<isOpen, incident, formDescription, formLevel, diagramData,
              editingNodeId, originalLevel, isGeneratingDiagram, diagramError,
              canRegenerateMemo, genPending, levelTimers, lastOp, ops,
              diagramSource>>

levelVars == <<levelCall>>

storeVars == <<incidentsData, storeTasks, storeLast, storeOps>>

renderVars == <<renderData, renderShapes>>

mainVars == <<mainPage, mainTasks, mainLast, mainOps>>

vars == <<genIncident, genLevel, genOut, genAgain, genCalls,
          depthIn, depthOut, depthDone,
          isOpen, incident, formDescription, formLevel, diagramData,
          editingNodeId, originalLevel, isGeneratingDiagram, diagramError,
          canRegenerateMemo, genPending, levelTimers, lastOp, ops,
          diagramSource, levelCall,
          incidentsData, storeTasks, storeLast, storeOps,
          renderData, renderShapes,
          mainPage, mainTasks, mainLast, mainOps>>

----------------------------------------------------------------------------
(* Bounds of the model *)

MaxTextLen == 32
MaxCalls == 3
MaxDepthNodes == 4
MaxOps == 3
MaxPending == 1
MaxTimers == 1
MaxCallerLevel == 7
MaxStoreOps == 3
MaxRenderNodes == 10
MaxMainOps == 3

----------------------------------------------------------------------------
(* JavaScript values and strings *)

Undefined == -1

Min(a, b) == IF a <= b THEN a ELSE b

Max(a, b) == IF a >= b THEN a ELSE b

Whitespace == {" ", "\t"}

RECURSIVE trimStart(_)
trimStart(s) ==
  IF s # <<>> /\ Head(s) \in Whitespace THEN trimStart(Tail(s)) ELSE s

RECURSIVE trimEnd(_)
trimEnd(s) ==
  IF s # <<>> /\ s[Len(s)] \in Whitespace
  THEN trimEnd(SubSeq(s, 1, Len(s) - 1))
  ELSE s

trim(s) == trimEnd(trimStart(s))

\* String.prototype.substring(from, to) with 0 <= from <= to, 0-based, to clamped
substring(s, from, to) == SubSeq(s, from + 1, Min(to, Len(s)))

\* node.parent read as JavaScript reads it: undefined when the property is missing
parentOf(node) == IF "parent" \in DOMAIN node THEN node.parent ELSE Undefined

\* !node.parent
hasNoParent(node) == parentOf(node) = Undefined \/ parentOf(node) = 0

keysOf(nodes) == {nodes[i].key : i \in 1..Len(nodes)}

----------------------------------------------------------------------------
(* Diagram Generator: IncidentRepository.generateGenericData *)

level1Names ==
  << <<"H", "u", "m", "a", "n", " ", "F", "a", "c", "t", "o", "r">>,
     <<"E", "q", "u", "i", "p", "m", "e", "n", "t", " ", "I", "s", "s", "u", "e">>,
     <<"E", "n", "v", "i", "r", "o", "n", "m", "e", "n", "t", "a", "l", " ", "F", "a", "c", "t", "o", "r">>,
     <<"P", "r", "o", "c", "e", "s", "s", " ", "I", "s", "s", "u", "e">>,
     <<"M", "a", "n", "a", "g", "e", "m", "e", "n", "t", " ", "F", "a", "c", "t", "o", "r">> >>

level2Names ==
  << <<"I", "n", "a", "d", "e", "q", "u", "a", "t", "e", " ", "T", "r", "a", "i", "n", "i", "n", "g">>,
     <<"F", "a", "t", "i", "g", "u", "e", "/", "S", "t", "r", "e", "s", "s">>,
     <<"M", "a", "i", "n", "t", "e", "n", "a", "n", "c", "e", " ", "I", "s", "s", "u", "e">>,
     <<"D", "e", "s", "i", "g", "n", " ", "F", "l", "a", "w">>,
     <<"U", "n", "s", "a", "f", "e", " ", "C", "o", "n", "d", "i", "t", "i", "o", "n", "s">>,
     <<"W", "e", "a", "t", "h", "e", "r", " ", "I", "m", "p", "a", "c", "t">> >>

RootKey == 1

InitialKeyCounter == 2

MaxFirstLayer == 5

MaxSecondLayer == 6

NameLimit == 30

NameKeep == 27

Ellipsis == <<".", ".", ".">>

\* mutant: the boundary test written `<` instead of `<=`
truncateIncidentName_strict(incidentText) ==
  IF Len(incidentText) < NameLimit
  THEN incidentText
  ELSE substring(incidentText, 0, NameKeep) \o Ellipsis

truncateIncidentName(incidentText) ==
  IF Len(incidentText) <= NameLimit
  THEN incidentText
  ELSE substring(incidentText, 0, NameKeep) \o Ellipsis

\* mutant: one category fewer, Math.min(5, level + 1)
firstLayerCount_short(level) == Max(0, Min(MaxFirstLayer, level + 1))

\* loop bound of the first layer: Math.min(5, level + 2)
firstLayerCount(level) == Max(0, Min(MaxFirstLayer, level + 2))

\* mutant: the second layer is created from level 1 on
secondLayerCount_always(level, n1) ==
  IF level >= 1 THEN Min(n1 * 2, MaxSecondLayer) ELSE 0

\* loop bound of the second layer, 0 when the `if (level >= 2)` is not taken
secondLayerCount(level, n1) ==
  IF level >= 2 THEN Min(n1 * 2, MaxSecondLayer) ELSE 0

\* mutant: the first-layer nodes are pushed without their parent
level1Node_orphan(i, keyCounter) ==
  [key |-> keyCounter + i, name |-> level1Names[i + 1]]

\* the node pushed by iteration i (0-based) of the first loop; keyCounter is
\* the counter's value when the loop starts
level1Node(i, keyCounter) ==
  [key |-> keyCounter + i, parent |-> RootKey, name |-> level1Names[i + 1]]

\* mutant: parent read from the counter after its increment ({key: keyCounter++,
\* parent: keyCounter}) instead of from level1Keys
level2Node_counter(i, keyCounter, level1Keys) ==
  [key |-> keyCounter + i,
   parent |-> keyCounter + i + 1,
   name |-> level2Names[i + 1]]

\* the node pushed by iteration i (0-based) of the second loop
level2Node(i, keyCounter, level1Keys) ==
  [key |-> keyCounter + i,
   parent |-> level1Keys[(i % Len(level1Keys)) + 1],
   name |-> level2Names[i + 1]]

generateGenericData(incidentText, level) ==
  LET root == [key |-> RootKey, name |-> truncateIncidentName(incidentText)]
      n1 == firstLayerCount(level)
      layer1 == [i \in 1..n1 |-> level1Node(i - 1, InitialKeyCounter)]
      level1Keys == [i \in 1..n1 |-> layer1[i].key]
      n2 == secondLayerCount(level, n1)
      layer2 == [i \in 1..n2 |-> level2Node(i - 1, InitialKeyCounter + n1, level1Keys)]
  IN <<root>> \o layer1 \o layer2

\* mutant: keyCounter kept in a field of the repository and not reset by a call
fakeApiCall_staleCounter(incidentText, level) ==
  LET data == generateGenericData(incidentText, level)
      shift == (genCalls * Len(data))
  IN [i \in 1..Len(data) |->
        IF i = 1 THEN data[i]
        ELSE [data[i] EXCEPT !.key = @ + shift,
                             !.parent = IF @ = RootKey THEN @ ELSE @ + shift]]

\* fakeApiCall computes the list when it is called; the delay only postpones delivery
fakeApiCall(incidentText, level) == generateGenericData(incidentText, level)

----------------------------------------------------------------------------
(* Generator harness: calls of generateDiagram on drawn arguments *)

MinLevel == 1

MaxLevel == 5

Levels == MinLevel..MaxLevel

Alphabet == <<"a", " ", "b", ".">>

PatternText(n, k) == [i \in 1..n |-> Alphabet[((i + k) % Len(Alphabet)) + 1]]

GenTexts == {PatternText(n, k) : n \in 0..MaxTextLen, k \in 0..(Len(Alphabet) - 1)}

GenInit ==
  /\ genIncident \in GenTexts
  /\ genLevel \in Levels
  /\ genOut = <<>>
  /\ genAgain = <<>>
  /\ genCalls = 0

\* generateDiagram(incident, level) on the drawn arguments
GenCall ==
  /\ genCalls < MaxCalls
  /\ genOut = <<>>
  /\ genOut' = fakeApiCall(genIncident, genLevel)
  /\ genCalls' = genCalls + 1
  /\ UNCHANGED <<genIncident, genLevel, genAgain>>

\* a call by another caller, with arguments of its own
GenOtherCall ==
  /\ genCalls < MaxCalls
  /\ \E l \in Levels : l # genLevel
  /\ genCalls' = genCalls + 1
  /\ UNCHANGED <<genIncident, genLevel, genOut, genAgain>>

\* generateDiagram called again with the arguments of the first call
GenRepeat ==
  /\ genCalls < MaxCalls
  /\ genOut # <<>>
  /\ genAgain' = fakeApiCall(genIncident, genLevel)
  /\ genCalls' = genCalls + 1
  /\ UNCHANGED <<genIncident, genLevel, genOut>>

GenNext ==
  \/ GenCall /\ UNCHANGED <<depthVars, editVars, levelVars, storeVars, renderVars, mainVars>>
  \/ GenOtherCall /\ UNCHANGED <<depthVars, editVars, levelVars, storeVars, renderVars, mainVars>>
  \/ GenRepeat /\ UNCHANGED <<depthVars, editVars, levelVars, storeVars, renderVars, mainVars>>

----------------------------------------------------------------------------
(* Depth Assigner: HierarchyDiagramComponent.assignDisplayLevels *)

\* mutant: the entries are copied without the default level
withDisplayLevel_unset(node, displayLevel) ==
  [f \in DOMAIN node \cup {"displayLevel"} |->
     IF f = "displayLevel" THEN Undefined ELSE node[f]]

\* { ...node, displayLevel }
withDisplayLevel(node, displayLevel) ==
  [f \in DOMAIN node \cup {"displayLevel"} |->
     IF f = "displayLevel" THEN displayLevel ELSE node[f]]

\* position of the entry of `key` in a Map kept as the sequence of its
\* values in insertion order, 0 when the Map has no such key
mapIndex(map, key) ==
  IF \E i \in 1..Len(map) : map[i].key = key
  THEN CHOOSE i \in 1..Len(map) : map[i].key = key
  ELSE 0

\* Map.prototype.set: a new key is appended, a known key keeps its place
mapSet(map, entry) ==
  IF mapIndex(map, entry.key) = 0
  THEN Append(map, entry)
  ELSE [map EXCEPT ![mapIndex(map, entry.key)] = entry]

\* data.forEach(node => nodeMap.set(node.key, { ...node, displayLevel: 0 }))
RECURSIVE buildNodeMap(_, _)
buildNodeMap(data, map) ==
  IF data = <<>> THEN map
  ELSE buildNodeMap(Tail(data), mapSet(map, withDisplayLevel(Head(data), 0)))

\* data.find(node => !node.parent): index of the first such node, 0 for none
findRoot(data) ==
  IF \E i \in 1..Len(data) : hasNoParent(data[i])
  THEN CHOOSE i \in 1..Len(data) :
         hasNoParent(data[i]) /\ \A j \in 1..(i - 1) : ~hasNoParent(data[j])
  ELSE 0

\* mutant: the children get the level of their parent
childLevel_same(displayLevel) == displayLevel

\* the level handed to the children: displayLevel + 1
childLevel(displayLevel) == displayLevel + 1

RECURSIVE assignDisplayLevelRecursive(_, _, _)
RECURSIVE visitChildren(_, _, _, _)

\* nodeMap.forEach(child => ...) from entry i on, on the Map as the earlier
\* iterations left it
visitChildren(nodeKey, displayLevel, map, i) ==
  IF i > Len(map) THEN map
  ELSE IF parentOf(map[i]) = nodeKey
       THEN visitChildren(nodeKey, displayLevel,
              assignDisplayLevelRecursive(map[i].key, childLevel(displayLevel), map),
              i + 1)
       ELSE visitChildren(nodeKey, displayLevel, map, i + 1)

\* returns the Map after the call (the code mutates its entries in place)
assignDisplayLevelRecursive(nodeKey, displayLevel, map) ==
  IF mapIndex(map, nodeKey) = 0 THEN map
  ELSE visitChildren(nodeKey, displayLevel,
         [map EXCEPT ![mapIndex(map, nodeKey)].displayLevel = displayLevel], 1)

\* Array.from(nodeMap.values())
assignDisplayLevels(data) ==
  LET nodeMap == buildNodeMap(data, <<>>)
      root == findRoot(data)
  IN IF root # 0
     THEN assignDisplayLevelRecursive(data[root].key, 0, nodeMap)
     ELSE nodeMap

----------------------------------------------------------------------------
(* The mock store's embedded data the editor is opened on *)

\* mutant: the parent property is left out of every node
jsonStringify_noParent(nodes) ==
  [json |-> [i \in 1..Len(nodes) |->
               [f \in DOMAIN nodes[i] \ {"parent"} |-> nodes[i][f]]]]

\* JSON.stringify of a node list: a property whose value is undefined is
\* left out (of key, name and parent only parent is ever undefined)
jsonStringify(nodes) ==
  [json |-> [i \in 1..Len(nodes) |->
               [f \in {g \in DOMAIN nodes[i] : g # "parent" \/ nodes[i].parent # Undefined}
                  |-> nodes[i][f]]]]

\* JSON.parse of a text made by jsonStringify
jsonParse(text) == text.json

Diagram1Names ==
  << <<"S", "l", "i", "p", " ", "I", "n", "c", "i", "d", "e", "n", "t">>,
     <<"E", "n", "v", "i", "r", "o", "n", "m", "e", "n", "t", "a", "l", " ", "F", "a", "c", "t", "o", "r", "s">>,
     <<"S", "a", "f", "e", "t", "y", " ", "P", "r", "o", "t", "o", "c", "o", "l", " ", "I", "s", "s", "u", "e", "s">>,
     <<"W", "e", "t", " ", "F", "l", "o", "o", "r", " ", "C", "o", "n", "d", "i", "t", "i", "o", "n">>,
     <<"P", "o", "o", "r", " ", "L", "i", "g", "h", "t", "i", "n", "g">>,
     <<"M", "i", "s", "s", "i", "n", "g", " ", "W", "a", "r", "n", "i", "n", "g", " ", "S", "i", "g", "n", "s">>,
     <<"I", "n", "a", "d", "e", "q", "u", "a", "t", "e", " ", "T", "r", "a", "i", "n", "i", "n", "g">> >>

Diagram2Names ==
  << <<"E", "l", "e", "c", "t", "r", "i", "c", "a", "l", " ", "F", "i", "r", "e">>,
     <<"E", "l", "e", "c", "t", "r", "i", "c", "a", "l", " ", "S", "y", "s", "t", "e", "m", " ", "I", "s", "s", "u", "e", "s">>,
     <<"M", "a", "i", "n", "t", "e", "n", "a", "n", "c", "e", " ", "F", "a", "i", "l", "u", "r", "e", "s">>,
     <<"C", "i", "r", "c", "u", "i", "t", " ", "O", "v", "e", "r", "l", "o", "a", "d">>,
     <<"F", "a", "u", "l", "t", "y", " ", "W", "i", "r", "i", "n", "g">> >>

Diagram1Parents == <<0, 1, 1, 2, 2, 3, 3>>

Diagram2Parents == <<0, 1, 1, 2, 2>>

\* the node list literals of getEmbeddedIncidentsData
literalNodes(names, parents) ==
  [i \in 1..Len(names) |->
     IF parents[i] = 0 THEN [key |-> i, name |-> names[i]]
     ELSE [key |-> i, parent |-> parents[i], name |-> names[i]]]

EmbeddedDiagram1 ==
  [id |-> 1, incidentId |-> 1,
   diagramJson |-> jsonStringify(literalNodes(Diagram1Names, Diagram1Parents))]

EmbeddedDiagram2 ==
  [id |-> 2, incidentId |-> 2,
   diagramJson |-> jsonStringify(literalNodes(Diagram2Names, Diagram2Parents))]

Incident1Description ==
  <<"W", "o", "r", "k", "e", "r", " ", "s", "l", "i", "p", "p", "e", "d",
    " ", "o", "n", " ", "w", "e", "t", " ", "f", "l", "o", "o", "r", " ",
    "i", "n", " ", "w", "a", "r", "e", "h", "o", "u", "s", "e", " ", "s",
    "e", "c", "t", "i", "o", "n", " ", "B">>

Incident1Level ==
  <<"L", "e", "v", "e", "l", " ", "3", " ", "-", " ", "M", "o", "d", "e",
    "r", "a", "t", "e", " ", "A", "n", "a", "l", "y", "s", "i", "s">>

Incident2Description ==
  <<"E", "l", "e", "c", "t", "r", "i", "c", "a", "l", " ", "f", "i", "r",
    "e", " ", "s", "t", "a", "r", "t", "e", "d", " ", "i", "n", " ", "c",
    "o", "n", "t", "r", "o", "l", " ", "p", "a", "n", "e", "l", " ", "d",
    "u", "e", " ", "t", "o", " ", "o", "v", "e", "r", "l", "o", "a", "d",
    "e", "d", " ", "c", "i", "r", "c", "u", "i", "t">>

Incident2Level ==
  <<"L", "e", "v", "e", "l", " ", "4", " ", "-", " ", "D", "e", "t", "a",
    "i", "l", "e", "d", " ", "A", "n", "a", "l", "y", "s", "i", "s">>

Incident7Description ==
  <<"N", "e", "a", "r", " ", "m", "i", "s", "s", " ", "-", " ", "f", "o",
    "r", "k", "l", "i", "f", "t", " ", "a", "l", "m", "o", "s", "t", " ",
    "c", "o", "l", "l", "i", "d", "e", "d", " ", "w", "i", "t", "h", " ",
    "p", "e", "d", "e", "s", "t", "r", "i", "a", "n">>

Incident7Level ==
  <<"L", "e", "v", "e", "l", " ", "2", " ", "-", " ", "B", "a", "s", "i",
    "c", " ", "A", "n", "a", "l", "y", "s", "i", "s">>

\* incidents 1, 2 and 7 of the embedded data, as getHistoryForUser hands them
\* to the page: each with the diagrams whose incidentId is its id
EmbeddedIncidents ==
  { [id |-> 1, description |-> Incident1Description,
     analysisLevel |-> Incident1Level, diagrams |-> <<EmbeddedDiagram1>>],
    [id |-> 2, description |-> Incident2Description,
     analysisLevel |-> Incident2Level, diagrams |-> <<EmbeddedDiagram2>>],
    [id |-> 7, description |-> Incident7Description,
     analysisLevel |-> Incident7Level, diagrams |-> <<>>] }

----------------------------------------------------------------------------
(* Diagram Editor: IncidentEditModalComponent *)

NoIncident == [id |-> 0]

NoKey == 0

\* the value of a form control after editForm.reset()
NullText == <<"null">>

LevelLabels ==
  << <<"L", "e", "v", "e", "l", " ", "1", " ", "-", " ", "B", "a", "s",
       "i", "c", " ", "A", "n", "a", "l", "y", "s", "i", "s">>,
     <<"L", "e", "v", "e", "l", " ", "2", " ", "-", " ", "L", "o", "w",
       " ", "P", "r", "i", "o", "r", "i", "t", "y">>,
     <<"L", "e", "v", "e", "l", " ", "3", " ", "-", " ", "M", "o", "d",
       "e", "r", "a", "t", "e", " ", "A", "n", "a", "l", "y", "s", "i",
       "s">>,
     <<"L", "e", "v", "e", "l", " ", "4", " ", "-", " ", "D", "e", "t",
       "a", "i", "l", "e", "d", " ", "A", "n", "a", "l", "y", "s", "i",
       "s">>,
     <<"L", "e", "v", "e", "l", " ", "5", " ", "-", " ", "C", "o", "m",
       "p", "r", "e", "h", "e", "n", "s", "i", "v", "e", " ", "A", "n",
       "a", "l", "y", "s", "i", "s">> >>

DefaultLevelLabel ==
  <<"L", "e", "v", "e", "l", " ", "3", " ", "-", " ", "M", "o", "d", "e",
    "r", "a", "t", "e", " ", "A", "n", "a", "l", "y", "s", "i", "s">>

LevelWord ==
  <<"L", "e", "v", "e", "l", " ">>

PlaceholderName ==
  <<"N", "e", "w", " ", "A", "n", "a", "l", "y", "s", "i", "s", " ", "P", "o", "i", "n", "t">>

DefaultLevel == 3

MinDescription == 10

Digits == <<"0", "1", "2", "3", "4", "5", "6", "7", "8", "9">>

isDigit(c) == \E v \in 1..Len(Digits) : Digits[v] = c

digitValue(c) == (CHOOSE v \in 1..Len(Digits) : Digits[v] = c) - 1

\* parseInt of the run of digits that starts at position i, read after `acc`
RECURSIVE parseDigits(_, _, _)
parseDigits(s, i, acc) ==
  IF i <= Len(s) /\ isDigit(s[i])
  THEN parseDigits(s, i + 1, acc * 10 + digitValue(s[i]))
  ELSE acc

\* positions where /Level (\d+)/ matches
levelMatches(s) ==
  {i \in 1..Len(s) :
     /\ i + Len(LevelWord) <= Len(s)
     /\ SubSeq(s, i, i + Len(LevelWord) - 1) = LevelWord
     /\ isDigit(s[i + Len(LevelWord)])}

extractLevelNumber(analysisLevel) ==
  IF analysisLevel = NullText \/ analysisLevel = <<>> THEN DefaultLevel
  ELSE IF levelMatches(analysisLevel) = {} THEN DefaultLevel
  ELSE LET i == CHOOSE m \in levelMatches(analysisLevel) :
                  \A o \in levelMatches(analysisLevel) : m <= o
       IN parseDigits(analysisLevel, i + Len(LevelWord), 0)

\* what ?.trim() gives for a null value
UndefinedText == <<"undefined">>

\* this.editForm.get('description')?.value?.trim()
trimmedDescription ==
  IF formDescription = NullText THEN UndefinedText ELSE trim(formDescription)

\* the function inside computed(): description && description.length > 10 && level
canRegenerateNow ==
  /\ trimmedDescription # UndefinedText
  /\ trimmedDescription # <<>>
  /\ Len(trimmedDescription) > MinDescription
  /\ formLevel # NullText
  /\ formLevel # <<>>

\* canRegenerateDiagram(): the function reads no signal, so the computed
\* keeps the value of its first evaluation
canRegenerateDiagram ==
  IF canRegenerateMemo = "unset" THEN canRegenerateNow ELSE canRegenerateMemo = "yes"

memoAfterRead ==
  IF canRegenerateMemo # "unset" THEN canRegenerateMemo
  ELSE IF canRegenerateNow THEN "yes" ELSE "no"

\* loadDiagramData
loadDiagramData(inc) ==
  IF Len(inc.diagrams) > 0 THEN jsonParse(inc.diagrams[1].diagramJson) ELSE <<>>

\* what the user types as a node text: nothing, white space only, a text
\* with white space around it
RenameTexts == {<<>>, <<" ", "\t", " ">>, <<" ", "o", "k", " ">>}

\* what the user types as a description: too short, 10 characters between
\* spaces, 11 characters
EditDescriptions ==
  { <<"t", "o", "o", " ", "s", "h", "o", "r", "t">>,
    <<" ", "t", "e", "n", " ", "c", "h", "a", "r", "s", "!", " ">>,
    <<"e", "l", "e", "v", "e", "n", " ", "c", "h", "a", "r">> }

EditInit ==
  /\ isOpen = FALSE
  /\ incident = NoIncident
  /\ formDescription = <<>>
  /\ formLevel = DefaultLevelLabel
  /\ diagramData = <<>>
  /\ editingNodeId = NoKey
  /\ originalLevel = DefaultLevel
  /\ isGeneratingDiagram = FALSE
  /\ diagramError = ""
  /\ canRegenerateMemo = "unset"
  /\ genPending = <<>>
  /\ levelTimers = 0
  /\ lastOp = [op |-> "none", text |-> <<>>]
  /\ ops = 0
  /\ diagramSource = "none"

\* ngOnChanges with the incident the page has set as input
OpenOn(inc) ==
  /\ incident' = inc
  /\ isOpen' = TRUE
  /\ formDescription' = inc.description
  /\ formLevel' = (IF inc.analysisLevel = <<>> THEN DefaultLevelLabel ELSE inc.analysisLevel)
  /\ diagramData' = loadDiagramData(inc)
  /\ originalLevel' = extractLevelNumber(inc.analysisLevel)

\* ngOnChanges when the page sets the incident input (editIncident, onEditFromView)
Open ==
  /\ ~isOpen
  /\ \E inc \in EmbeddedIncidents : OpenOn(inc)
  /\ diagramSource' = "loaded"
  /\ lastOp' = [op |-> "open", text |-> <<>>]
  /\ UNCHANGED <<editingNodeId, isGeneratingDiagram, diagramError,
                 canRegenerateMemo, genPending, levelTimers, ops>>

\* closeModal; the close event makes the page set the incident input to null
CloseModal ==
  /\ isOpen
  /\ ops < MaxOps
  /\ isOpen' = FALSE
  /\ diagramError' = ""
  /\ isGeneratingDiagram' = FALSE
  /\ editingNodeId' = NoKey
  /\ diagramData' = <<>>
  /\ originalLevel' = DefaultLevel
  /\ formDescription' = NullText
  /\ formLevel' = NullText
  /\ incident' = NoIncident
  /\ diagramSource' = "none"
  /\ lastOp' = [op |-> "close", text |-> <<>>]
  /\ ops' = ops + 1
  /\ UNCHANGED <<canRegenerateMemo, genPending, levelTimers>>

\* a template binding reads canRegenerateDiagram() during change detection
ReadCanRegenerate ==
  /\ canRegenerateMemo = "unset"
  /\ canRegenerateMemo' = memoAfterRead
  /\ lastOp' = [op |-> "read", text |-> <<>>]
  /\ UNCHANGED <<isOpen, incident, formDescription, formLevel, diagramData,
                 editingNodeId, originalLevel, isGeneratingDiagram, diagramError,
                 genPending, levelTimers, ops, diagramSource>>

EditUnchangedByEdit == <<isOpen, incident, formDescription, formLevel, originalLevel,
                         isGeneratingDiagram, canRegenerateMemo, genPending, levelTimers,
                         diagramSource>>

\* the user types into the description control
SetDescription ==
  /\ isOpen
  /\ ops < MaxOps
  /\ \E t \in EditDescriptions :
       /\ t # formDescription
       /\ formDescription' = t
  /\ lastOp' = [op |-> "describe", text |-> <<>>]
  /\ ops' = ops + 1
  /\ UNCHANGED <<isOpen, incident, formLevel, diagramData, editingNodeId,
                 originalLevel, isGeneratingDiagram, diagramError,
                 canRegenerateMemo, genPending, levelTimers, diagramSource>>

\* the body of regenerateDiagram up to its await, as a relation on the
\* variables it writes
regenerateDiagram ==
  IF ~canRegenerateDiagram
  THEN /\ diagramError' = "Please provide incident description and select a level first."
       /\ canRegenerateMemo' = memoAfterRead
       /\ UNCHANGED <<isGeneratingDiagram, editingNodeId, genPending>>
  ELSE /\ canRegenerateMemo' = memoAfterRead
       /\ editingNodeId' = NoKey
       /\ IF trimmedDescription = UndefinedText
             \/ trimmedDescription = <<>>
             \/ Len(trimmedDescription) < MinDescription
          THEN \* the throw is caught; finally clears the flag
               /\ diagramError' = "Incident description must be at least 10 characters long."
               /\ isGeneratingDiagram' = FALSE
               /\ UNCHANGED genPending
          ELSE /\ diagramError' = ""
               /\ isGeneratingDiagram' = TRUE
               /\ genPending' = Append(genPending,
                    fakeApiCall(trimmedDescription, extractLevelNumber(formLevel)))

\* the select's change event: the control takes the value, then onLevelChange
ChangeLevel ==
  /\ isOpen
  /\ ops < MaxOps
  /\ levelTimers < MaxTimers
  /\ \E i \in 1..Len(LevelLabels) :
       /\ LevelLabels[i] # formLevel
       /\ formLevel' = LevelLabels[i]
       /\ IF extractLevelNumber(LevelLabels[i]) # originalLevel
          THEN /\ canRegenerateMemo' = memoAfterRead
               /\ levelTimers' = IF canRegenerateDiagram THEN levelTimers + 1 ELSE levelTimers
          ELSE UNCHANGED <<canRegenerateMemo, levelTimers>>
  /\ lastOp' = [op |-> "level", text |-> <<>>]
  /\ ops' = ops + 1
  /\ UNCHANGED <<isOpen, incident, formDescription, diagramData, editingNodeId,
                 originalLevel, isGeneratingDiagram, diagramError, genPending,
                 diagramSource>>

\* the setTimeout callback of onLevelChange
LevelTimerFire ==
  /\ levelTimers > 0
  /\ Len(genPending) < MaxPending
  /\ levelTimers' = levelTimers - 1
  /\ regenerateDiagram
  /\ lastOp' = [op |-> "timer", text |-> <<>>]
  /\ UNCHANGED <<isOpen, incident, formDescription, formLevel, diagramData,
                 originalLevel, ops, diagramSource>>

\* the regenerate button
RegenerateClick ==
  /\ isOpen
  /\ ops < MaxOps
  /\ Len(genPending) < MaxPending
  /\ regenerateDiagram
  /\ lastOp' = [op |-> "regenerate", text |-> <<>>]
  /\ ops' = ops + 1
  /\ UNCHANGED <<isOpen, incident, formDescription, formLevel, diagramData,
                 originalLevel, levelTimers, diagramSource>>

\* regenerateDiagram after its await: the delayed list arrives
RegenerateComplete ==
  /\ genPending # <<>>
  /\ IF Len(Head(genPending)) > 0
     THEN /\ diagramData' = Head(genPending)
          /\ diagramSource' = "generated"
          /\ UNCHANGED diagramError
     ELSE /\ diagramError' = "No diagram data was generated. Please try again."
          /\ UNCHANGED <<diagramData, diagramSource>>
  /\ isGeneratingDiagram' = FALSE
  /\ genPending' = Tail(genPending)
  /\ lastOp' = [op |-> "generated", text |-> <<>>]
  /\ UNCHANGED <<isOpen, incident, formDescription, formLevel, editingNodeId,
                 originalLevel, canRegenerateMemo, levelTimers, ops>>

startEditingNode(nodeKey) ==
  /\ editingNodeId' = nodeKey
  /\ UNCHANGED <<diagramData, diagramError>>

StartEditingNode ==
  /\ isOpen
  /\ ops < MaxOps
  /\ \E nodeKey \in keysOf(diagramData) :
       /\ startEditingNode(nodeKey)
       /\ lastOp' = [op |-> "startEdit", text |-> <<>>]
  /\ ops' = ops + 1
  /\ UNCHANGED EditUnchangedByEdit

StopEditingNode ==
  /\ isOpen
  /\ ops < MaxOps
  /\ editingNodeId' = NoKey
  /\ lastOp' = [op |-> "stopEdit", text |-> <<>>]
  /\ ops' = ops + 1
  /\ UNCHANGED <<diagramData, diagramError>>
  /\ UNCHANGED EditUnchangedByEdit

\* mutant: the text is tested without trim
isBlankText_untrimmed(newText) == newText = <<>>

\* !newText || !newText.trim()
isBlankText(newText) == newText = <<>> \/ trim(newText) = <<>>

\* mutant: the map without its test on the key, every node takes the text
updateNodeText_all(nodeKey, newText) ==
  IF isBlankText(newText)
  THEN /\ diagramError' = "Node text cannot be empty."
       /\ UNCHANGED <<diagramData, editingNodeId>>
  ELSE /\ diagramData' = [i \in 1..Len(diagramData) |->
                            [diagramData[i] EXCEPT !.name = trim(newText)]]
       /\ editingNodeId' = NoKey
       /\ diagramError' = ""

updateNodeText(nodeKey, newText) ==
  IF isBlankText(newText)
  THEN /\ diagramError' = "Node text cannot be empty."
       /\ UNCHANGED <<diagramData, editingNodeId>>
  ELSE /\ diagramData' = [i \in 1..Len(diagramData) |->
                            IF diagramData[i].key = nodeKey
                            THEN [diagramData[i] EXCEPT !.name = trim(newText)]
                            ELSE diagramData[i]]
       /\ editingNodeId' = NoKey
       /\ diagramError' = ""

UpdateNodeText ==
  /\ isOpen
  /\ ops < MaxOps
  /\ \E nodeKey \in keysOf(diagramData), newText \in RenameTexts :
       /\ updateNodeText(nodeKey, newText)
       /\ lastOp' = [op |-> "rename", text |-> newText]
  /\ ops' = ops + 1
  /\ UNCHANGED EditUnchangedByEdit

\* mutant: the number of nodes taken for the highest key
maxKeyOf_length(nodes) == Len(nodes)

\* Math.max(...keys, 0)
RECURSIVE maxKeyOf(_)
maxKeyOf(nodes) ==
  IF nodes = <<>> THEN 0 ELSE Max(Head(nodes).key, maxKeyOf(Tail(nodes)))

\* mutant: the new node is appended but not put in edit mode
addNewNode_noEdit ==
  LET newNode == [key |-> maxKeyOf(diagramData) + 1,
                  name |-> PlaceholderName,
                  parent |-> Undefined]
  IN /\ diagramData' = Append(diagramData, newNode)
     /\ UNCHANGED <<editingNodeId, diagramError>>

addNewNode ==
  LET newNode == [key |-> maxKeyOf(diagramData) + 1,
                  name |-> PlaceholderName,
                  parent |-> Undefined]
  IN /\ diagramData' = Append(diagramData, newNode)
     /\ editingNodeId' = newNode.key
     /\ UNCHANGED diagramError

AddNewNode ==
  /\ isOpen
  /\ ops < MaxOps
  /\ addNewNode
  /\ lastOp' = [op |-> "add", text |-> <<>>]
  /\ ops' = ops + 1
  /\ UNCHANGED EditUnchangedByEdit

\* mutant: only the node and its direct children are collected
getNodeAndChildren_shallow(nodeKey, nodes) ==
  <<nodeKey>> \o
  [i \in 1..Len(SelectSeq(nodes, LAMBDA n : parentOf(n) = nodeKey)) |->
     SelectSeq(nodes, LAMBDA n : parentOf(n) = nodeKey)[i].key]

RECURSIVE getNodeAndChildren(_, _)
RECURSIVE collectChildren(_, _)

\* the for loop over children: the results of the recursive calls, in order
collectChildren(children, nodes) ==
  IF children = <<>> THEN <<>>
  ELSE getNodeAndChildren(Head(children).key, nodes) \o collectChildren(Tail(children), nodes)

getNodeAndChildren(nodeKey, nodes) ==
  <<nodeKey>> \o collectChildren(SelectSeq(nodes, LAMBDA n : parentOf(n) = nodeKey), nodes)

includes(list, x) == \E i \in 1..Len(list) : list[i] = x

\* mutant: the filter drops the node alone, its descendants stay
removeNode_single(nodeKey) ==
  /\ diagramData' = SelectSeq(diagramData, LAMBDA n : n.key # nodeKey)
  /\ editingNodeId' = IF editingNodeId = nodeKey THEN NoKey ELSE editingNodeId
  /\ UNCHANGED diagramError

removeNode(nodeKey) ==
  LET nodesToRemove == getNodeAndChildren(nodeKey, diagramData)
  IN /\ diagramData' = SelectSeq(diagramData, LAMBDA n : ~includes(nodesToRemove, n.key))
     /\ editingNodeId' = IF editingNodeId = nodeKey THEN NoKey ELSE editingNodeId
     /\ UNCHANGED diagramError

RemoveNode ==
  /\ isOpen
  /\ ops < MaxOps
  /\ \E nodeKey \in keysOf(diagramData) :
       /\ removeNode(nodeKey)
       /\ lastOp' = [op |-> "remove", text |-> <<>>]
  /\ ops' = ops + 1
  /\ UNCHANGED EditUnchangedByEdit

\* the loop of getNodeLevel from currentNode on; Undefined when the walk
\* has not ended after `fuel` steps (a cycle of parents: the loop never ends)
RECURSIVE walkUp(_, _, _, _)
walkUp(currentNode, nodes, level, fuel) ==
  IF hasNoParent(currentNode) THEN level
  ELSE IF fuel = 0 THEN Undefined
  ELSE LET at == {i \in 1..Len(nodes) : nodes[i].key = currentNode.parent}
       IN IF at = {} THEN level + 1
          ELSE walkUp(nodes[CHOOSE i \in at : \A j \in at : i <= j],
                      nodes, level + 1, fuel - 1)

\* mutant: one step up at most
getNodeLevel_oneStep(node, nodes) == IF hasNoParent(node) THEN 0 ELSE 1

getNodeLevel(node, nodes) == walkUp(node, nodes, 0, Len(nodes))

\* Math.max(...levels, 0)
getMaxLevel(nodes) ==
  LET levels == {getNodeLevel(nodes[i], nodes) : i \in 1..Len(nodes)} \cup {0}
  IN CHOOSE m \in levels : \A l \in levels : l <= m

\* result[i], i = 0..maxLevel, here at position i + 1: the nodes of level i
\* in list order
getNodesByLevel(nodes) ==
  [b \in 1..(getMaxLevel(nodes) + 1) |->
     SelectSeq(nodes, LAMBDA node : getNodeLevel(node, nodes) = b - 1)]

----------------------------------------------------------------------------
(* The level on its way to the generator: main page, edit modal, store *)

\* the levels a caller may hold: a form value, or the number in a stored label
CallerLevels == 0..MaxCallerLevel

\* the decimal digits of n
RECURSIVE decimal(_)
decimal(n) ==
  IF n < 10 THEN <<Digits[n + 1]>> ELSE decimal(n \div 10) \o <<Digits[(n % 10) + 1]>>

\* a stored analysisLevel label: 'Level N - x'
labelOf(n) == LevelWord \o decimal(n) \o <<" ", "-", " ", "x">>

\* an incident record whose label carries level n
labelledIncident(t, n) ==
  [id |-> 1, description |-> t, analysisLevel |-> labelOf(n), diagrams |-> <<>>]

MainMinIncident == 10

MainMinLevel == 3

MainMaxLevel == 5

\* incidentForm.valid: incident required with minLength(10), level required
\* with min(3) and max(5)
incidentFormValid(incidentText, level) ==
  /\ incidentText # <<>>
  /\ Len(incidentText) >= MainMinIncident
  /\ level >= MainMinLevel
  /\ level <= MainMaxLevel

\* IncidentRepository.generateDiagram hands its level to fakeApiCall, and
\* fakeApiCall to generateGenericData, as it got it
repositoryLevel(level) == level

\* IncidentsStore.generateDiagram: payload.level
payloadLevel(level) == Max(MinLevel, Min(MaxLevel, level))

LevelIdle == levelCall = [path |-> "none", level |-> Undefined, reached |-> Undefined]

\* the history page opens the edit modal on an incident with a stored label
LevelOpen ==
  /\ ~isOpen
  /\ \E n \in CallerLevels, t \in EditDescriptions :
       /\ OpenOn(labelledIncident(t, n))
       /\ levelCall' = [path |-> "none", level |-> n, reached |-> Undefined]
  /\ diagramSource' = "loaded"
  /\ lastOp' = [op |-> "open", text |-> <<>>]
  /\ UNCHANGED <<editingNodeId, isGeneratingDiagram, diagramError,
                 canRegenerateMemo, genPending, levelTimers, ops>>

\* the modal's regenerate button: regenerateDiagram up to its await
ModalRegenerate ==
  /\ RegenerateClick
  /\ levelCall' = [path |-> "modal",
                   level |-> extractLevelNumber(formLevel),
                   reached |-> IF genPending' # genPending
                               THEN repositoryLevel(extractLevelNumber(formLevel))
                               ELSE Undefined]

\* the main page's onGenerateDiagram on a form holding a text and a level
MainGenerate ==
  /\ \E n \in CallerLevels, t \in EditDescriptions :
       levelCall' = [path |-> "main", level |-> n,
                     reached |-> IF incidentFormValid(t, n)
                                 THEN repositoryLevel(n) ELSE Undefined]
  /\ UNCHANGED editVars

\* IncidentsStore.generateDiagram(incident, level): the level it posts
StoreGenerate ==
  /\ \E n \in CallerLevels :
       levelCall' = [path |-> "store", level |-> n, reached |-> payloadLevel(n)]
  /\ UNCHANGED editVars

LevelNext ==
  \/ LevelOpen /\ UNCHANGED <<genVars, depthVars, storeVars, renderVars, mainVars>>
  \/ ModalRegenerate /\ UNCHANGED <<genVars, depthVars, storeVars, renderVars, mainVars>>
  \/ MainGenerate /\ UNCHANGED <<genVars, depthVars, storeVars, renderVars, mainVars>>
  \/ StoreGenerate /\ UNCHANGED <<genVars, depthVars, storeVars, renderVars, mainVars>>

----------------------------------------------------------------------------
(* Depth assigner harness: updateDiagram on drawn lists with distinct keys *)

DepthName(k) == <<"n", Alphabet[((k - 1) % Len(Alphabet)) + 1]>>

\* the node with key k and parent p; p = 0 stands for "no parent property"
DepthNode(k, p) ==
  IF p = 0 THEN [key |-> k, name |-> DepthName(k)]
  ELSE [key |-> k, name |-> DepthName(k), parent |-> p]

\* key order of the drawn lists: ascending or descending
DepthOrders(n) == {[i \in 1..n |-> i], [i \in 1..n |-> n + 1 - i]}

\* parents: none, explicitly undefined, a key of the list, or a key that is
\* not in the list (a dangling reference)
DepthParents(n) == {0, Undefined} \cup 1..(n + 1)

DepthInit ==
  /\ \E n \in 0..MaxDepthNodes :
       \E order \in DepthOrders(n), parents \in [1..n -> DepthParents(n)] :
         depthIn = [i \in 1..n |-> DepthNode(order[i], parents[order[i]])]
  /\ depthOut = <<>>
  /\ depthDone = FALSE

\* updateDiagram(data): assignDisplayLevels([...data])
DepthAssign ==
  /\ ~depthDone
  /\ depthOut' = assignDisplayLevels(depthIn)
  /\ depthDone' = TRUE
  /\ UNCHANGED depthIn

GenIdle ==
  /\ genIncident = <<>>
  /\ genLevel = MinLevel
  /\ genOut = <<>>
  /\ genAgain = <<>>
  /\ genCalls = 0

DepthIdle ==
  /\ depthIn = <<>>
  /\ depthOut = <<>>
  /\ depthDone = FALSE

DepthNext == DepthAssign /\ UNCHANGED <<genVars, editVars, levelVars, storeVars, renderVars, mainVars>>

----------------------------------------------------------------------------
(* Incident store: IncidentRepository over its in-memory incidentsData *)

\* mapLevelToAnalysisLevel(3) of the main page
Level3Basic ==
  <<"L", "e", "v", "e", "l", " ", "3", " ", "-", " ", "B", "a", "s", "i",
    "c", " ", "A", "n", "a", "l", "y", "s", "i", "s">>

UnknownLabel == <<"U", "n", "k", "n", "o", "w", "n">>

\* the recordedDate of a record saved while the program runs: new Date().
\* The embedded dates lie in 2024; the clock is taken to be in a later month.
Now == "now"

storedIncident(id, level, date) ==
  [id |-> id, analysisLevel |-> level, recordedDate |-> date]

EmbeddedStoreIncidents ==
  << storedIncident(1, Incident1Level, "2024-01-15"),
     storedIncident(2, Incident2Level, "2024-02-20"),
     storedIncident(3, Incident1Level, "2024-03-05"),
     storedIncident(4, LevelLabels[5], "2024-03-22"),
     storedIncident(5, Incident2Level, "2024-04-08"),
     storedIncident(6, Incident2Level, "2024-07-15"),
     storedIncident(7, Incident7Level, "2024-08-10") >>

\* the stats literal of the embedded data
EmbeddedStats ==
  [total |-> 7, thisMonth |-> 3,
   byAnalysisLevel |->
     (Incident7Level :> 1) @@ (Incident1Level :> 2) @@
     (Incident2Level :> 3) @@ (LevelLabels[5] :> 1)]

getEmbeddedIncidentsData ==
  [incidents |-> EmbeddedStoreIncidents,
   diagrams |-> <<EmbeddedDiagram1, EmbeddedDiagram2>>,
   stats |-> EmbeddedStats]

\* r.recordedDate >= (first day of the clock's month)
isThisMonth(r) == r.recordedDate = Now

\* record.analysisLevel || 'Unknown'
statsLabel(r) == IF r.analysisLevel = <<>> THEN UnknownLabel ELSE r.analysisLevel

updateStats(data) ==
  LET recs == data.incidents
      idx == 1..Len(recs)
  IN [data EXCEPT !.stats =
        [total |-> Len(recs),
         thisMonth |-> Cardinality({i \in idx : isThisMonth(recs[i])}),
         byAnalysisLevel |->
           [l \in {statsLabel(recs[i]) : i \in idx} |->
              Cardinality({i \in idx : statsLabel(recs[i]) = l})]]]

generateId(data) ==
  LET ids == {data.incidents[i].id : i \in 1..Len(data.incidents)}
               \cup {data.diagrams[i].id : i \in 1..Len(data.diagrams)}
               \cup {0}
      maxId == CHOOSE m \in ids : \A k \in ids : k <= m
  IN maxId + 1

\* list.findIndex(x => x.id === id), 0 standing for -1
findIndex(list, id) ==
  IF \E i \in 1..Len(list) : list[i].id = id
  THEN CHOOSE i \in 1..Len(list) :
         /\ list[i].id = id
         /\ \A j \in 1..(i - 1) : list[j].id # id
  ELSE 0

\* list.splice(index, 1)
splice(list, index) ==
  SubSeq(list, 1, index - 1) \o SubSeq(list, index + 1, Len(list))

\* { ...old, ...updates }
spread(old, updates) ==
  [f \in DOMAIN old \cup DOMAIN updates |->
     IF f \in DOMAIN updates THEN updates[f] ELSE old[f]]

IncidentNotFound == "Incident record not found"

DiagramNotFound == "Diagram not found"

saveIncident(data, label) ==
  LET newRecord == storedIncident(generateId(data), label, Now)
  IN [data |-> updateStats([data EXCEPT !.incidents = Append(@, newRecord)]),
      result |-> "ok",
      id |-> newRecord.id]

createDiagram(data, incidentId, nodes) ==
  LET newDiagram == [id |-> generateId(data), incidentId |-> incidentId,
                     diagramJson |-> jsonStringify(nodes)]
  IN [data |-> [data EXCEPT !.diagrams = Append(@, newDiagram)],
      result |-> "ok",
      id |-> newDiagram.id]

updateIncident_upsert(data, incidentId, updates) ==
  LET index == findIndex(data.incidents, incidentId)
      merged == IF index = 0
                THEN Append(data.incidents,
                            spread(storedIncident(incidentId, <<>>, Now), updates))
                ELSE [data.incidents EXCEPT ![index] = spread(@, updates)]
  IN [data |-> updateStats([data EXCEPT !.incidents = merged]),
      result |-> "ok",
      id |-> incidentId]

updateIncident(data, incidentId, updates) ==
  LET index == findIndex(data.incidents, incidentId)
  IN IF index = 0
     THEN [data |-> data, result |-> IncidentNotFound, id |-> incidentId]
     ELSE [data |-> updateStats([data EXCEPT
                       !.incidents[index] = spread(@, updates)]),
           result |-> "ok",
           id |-> incidentId]

\* the repository's updateDiagram(diagramId, title, diagramData)
updateDiagram(data, diagramId, nodes) ==
  LET index == findIndex(data.diagrams, diagramId)
  IN IF index = 0
     THEN [data |-> data, result |-> DiagramNotFound, id |-> diagramId]
     ELSE [data |-> [data EXCEPT
                       !.diagrams[index].diagramJson = jsonStringify(nodes)],
           result |-> "ok",
           id |-> diagramId]

deleteIncident_keepDiagrams(data, incidentId) ==
  LET index == findIndex(data.incidents, incidentId)
  IN IF index = 0
     THEN [data |-> data, result |-> IncidentNotFound, id |-> incidentId]
     ELSE [data |-> updateStats(
                      [data EXCEPT
                         !.diagrams = @,
                         !.incidents = splice(@, index)]),
           result |-> "ok",
           id |-> incidentId]

deleteIncident(data, incidentId) ==
  LET index == findIndex(data.incidents, incidentId)
  IN IF index = 0
     THEN [data |-> data, result |-> IncidentNotFound, id |-> incidentId]
     ELSE [data |-> updateStats(
                      [data EXCEPT
                         !.diagrams =
                            SelectSeq(@, LAMBDA d : d.incidentId # incidentId),
                         !.incidents = splice(@, index)]),
           result |-> "ok",
           id |-> incidentId]

\* delay(...) of each repository operation, in milliseconds
delayOf(op) ==
  IF op \in {"saveIncident", "updateIncident"} THEN 500 ELSE 300

\* a subscribed repository call whose delay has not ended yet.  then = "submit"
\* marks the updateIncident of the edit modal's onSubmit, which goes on with
\* the diagram; diagramId is incident.diagrams[0].id of the modal's incident
\* (0: it has no diagrams).
storeTask(op, id, label, nodes, then, diagramId) ==
  [op |-> op, id |-> id, label |-> label, nodes |-> nodes,
   then |-> then, diagramId |-> diagramId]

\* storeTasks is in call order: a timer ends before every timer started later
\* with the same or a longer delay, and in either order otherwise
ready(i) ==
  \A j \in 1..(i - 1) : delayOf(storeTasks[j].op) > delayOf(storeTasks[i].op)

StoreIds == {1, 7}

SaveLabels == {Level3Basic, <<>>}

UpdateLabels == {Incident2Level}

SubmitNodes ==
  { <<>>,
    << [key |-> 1, name |-> <<"r">>] >>,
    << [key |-> 1, name |-> <<"r">>],
       [key |-> 2, name |-> <<"c">>, parent |-> 1],
       [key |-> 3, name |-> PlaceholderName, parent |-> Undefined] >> }

\* the incident as a page holds it: getHistoryForUser attaches the diagrams
\* whose incidentId is the incident's id
diagramsOf(data, id) == SelectSeq(data.diagrams, LAMBDA d : d.incidentId = id)

called(id) == [op |-> "call", id |-> id, result |-> ""]

\* main page, onSaveIncident: saveIncident(createRequest)
CallSaveIncident ==
  /\ storeOps < MaxStoreOps
  /\ \E label \in SaveLabels :
       storeTasks' = Append(storeTasks,
                            storeTask("saveIncident", 0, label, <<>>, "none", 0))
  /\ storeOps' = storeOps + 1
  /\ storeLast' = called(0)
  /\ UNCHANGED incidentsData

\* history page, saveIncident: updateIncident(updatedIncident.id, updatedIncident)
CallUpdateIncident ==
  /\ storeOps < MaxStoreOps
  /\ \E id \in StoreIds, label \in UpdateLabels :
       /\ storeTasks' = Append(storeTasks,
                               storeTask("updateIncident", id, label, <<>>, "none", 0))
       /\ storeLast' = called(id)
  /\ storeOps' = storeOps + 1
  /\ UNCHANGED incidentsData

\* admin page, executeDelete: deleteIncident(parseInt(target.id))
CallDeleteIncident ==
  /\ storeOps < MaxStoreOps
  /\ \E id \in StoreIds :
       /\ storeTasks' = Append(storeTasks,
                               storeTask("deleteIncident", id, <<>>, <<>>, "none", 0))
       /\ storeLast' = called(id)
  /\ storeOps' = storeOps + 1
  /\ UNCHANGED incidentsData

\* edit modal, onSubmit up to its first await: updateIncident(incident.id, ...)
\* for the incident the modal was opened on, a copy the page loaded earlier
SubmitEdit ==
  /\ storeOps < MaxStoreOps
  /\ \E id \in StoreIds, loaded \in {getEmbeddedIncidentsData, incidentsData},
        nodes \in SubmitNodes, label \in UpdateLabels :
       /\ findIndex(loaded.incidents, id) # 0
       /\ LET diagrams == diagramsOf(loaded, id)
          IN storeTasks' =
               Append(storeTasks,
                      storeTask("updateIncident", id, label, nodes, "submit",
                                IF Len(diagrams) > 0 THEN diagrams[1].id ELSE 0))
       /\ storeLast' = called(id)
  /\ storeOps' = storeOps + 1
  /\ UNCHANGED incidentsData

resolved(op, r) == [op |-> op, id |-> r.id, result |-> r.result]

ResolveSaveIncident ==
  \E i \in 1..Len(storeTasks) :
    /\ ready(i)
    /\ storeTasks[i].op = "saveIncident"
    /\ LET r == saveIncident(incidentsData, storeTasks[i].label)
       IN /\ incidentsData' = r.data
          /\ storeLast' = resolved("saveIncident", r)
    /\ storeTasks' = splice(storeTasks, i)
    /\ UNCHANGED storeOps

\* the rest of onSubmit after a successful updateIncident: updateDiagram on the
\* incident's first diagram, or createDiagram when it has none; nothing when
\* there are no nodes
submitDiagramTask(t, updatedId) ==
  IF t.then = "submit" /\ Len(t.nodes) > 0
  THEN IF t.diagramId # 0
       THEN <<storeTask("updateDiagram", t.diagramId, <<>>, t.nodes, "none", 0)>>
       ELSE <<storeTask("createDiagram", updatedId, <<>>, t.nodes, "none", 0)>>
  ELSE <<>>

ResolveUpdateIncident ==
  \E i \in 1..Len(storeTasks) :
    /\ ready(i)
    /\ storeTasks[i].op = "updateIncident"
    /\ LET t == storeTasks[i]
           r == updateIncident(incidentsData, t.id, [analysisLevel |-> t.label])
       IN /\ incidentsData' = r.data
          /\ storeLast' = resolved("updateIncident", r)
          /\ storeTasks' = splice(storeTasks, i) \o
                             (IF r.result = "ok" THEN submitDiagramTask(t, r.id)
                              ELSE <<>>)
    /\ UNCHANGED storeOps

ResolveCreateDiagram ==
  \E i \in 1..Len(storeTasks) :
    /\ ready(i)
    /\ storeTasks[i].op = "createDiagram"
    /\ LET r == createDiagram(incidentsData, storeTasks[i].id, storeTasks[i].nodes)
       IN /\ incidentsData' = r.data
          /\ storeLast' = resolved("createDiagram", r)
    /\ storeTasks' = splice(storeTasks, i)
    /\ UNCHANGED storeOps

ResolveUpdateDiagram ==
  \E i \in 1..Len(storeTasks) :
    /\ ready(i)
    /\ storeTasks[i].op = "updateDiagram"
    /\ LET r == updateDiagram(incidentsData, storeTasks[i].id, storeTasks[i].nodes)
       IN /\ incidentsData' = r.data
          /\ storeLast' = resolved("updateDiagram", r)
    /\ storeTasks' = splice(storeTasks, i)
    /\ UNCHANGED storeOps

ResolveDeleteIncident ==
  \E i \in 1..Len(storeTasks) :
    /\ ready(i)
    /\ storeTasks[i].op = "deleteIncident"
    /\ LET r == deleteIncident(incidentsData, storeTasks[i].id)
       IN /\ incidentsData' = r.data
          /\ storeLast' = resolved("deleteIncident", r)
    /\ storeTasks' = splice(storeTasks, i)
    /\ UNCHANGED storeOps

StoreNext ==
  \/ CallSaveIncident /\ UNCHANGED <<genVars, depthVars, editVars, levelVars, renderVars, mainVars>>
  \/ CallUpdateIncident /\ UNCHANGED <<genVars, depthVars, editVars, levelVars, renderVars, mainVars>>
  \/ CallDeleteIncident /\ UNCHANGED <<genVars, depthVars, editVars, levelVars, renderVars, mainVars>>
  \/ SubmitEdit /\ UNCHANGED <<genVars, depthVars, editVars, levelVars, renderVars, mainVars>>
  \/ ResolveSaveIncident /\ UNCHANGED <<genVars, depthVars, editVars, levelVars, renderVars, mainVars>>
  \/ ResolveUpdateIncident /\ UNCHANGED <<genVars, depthVars, editVars, levelVars, renderVars, mainVars>>
  \/ ResolveCreateDiagram /\ UNCHANGED <<genVars, depthVars, editVars, levelVars, renderVars, mainVars>>
  \/ ResolveUpdateDiagram /\ UNCHANGED <<genVars, depthVars, editVars, levelVars, renderVars, mainVars>>
  \/ ResolveDeleteIncident /\ UNCHANGED <<genVars, depthVars, editVars, levelVars, renderVars, mainVars>>

\* getEmbeddedIncidentsData, as initializeData installs it in the constructor
StoreInit ==
  /\ incidentsData = getEmbeddedIncidentsData
  /\ storeTasks = <<>>
  /\ storeLast = [op |-> "none", id |-> 0, result |-> ""]
  /\ storeOps = 0

----------------------------------------------------------------------------
(* Hierarchy diagram: the fill of the node shapes *)

levelColors ==
  <<"#E3F2FD", "#F3E5F5", "#E8F5E8", "#FFF3E0",
    "#FCE4EC", "#F1F8E9", "#E0F2F1", "#FFF8E1">>

RootFill == "#4A90E2"

\* a % b of JavaScript: the sign of the result is the sign of a
jsRem(a, b) == IF a >= 0 THEN a % b ELSE 0 - ((0 - a) % b)

\* mutant: the palette is indexed by the depth itself
fill_byDepth(displayLevel) ==
  IF displayLevel = 0 THEN RootFill
  ELSE LET i == jsRem(displayLevel, Len(levelColors))
       IN IF i \in 0..(Len(levelColors) - 1) THEN levelColors[i + 1] ELSE "#E3F2FD"

\* the converter of the 'fill' binding on displayLevel
fill(displayLevel) ==
  IF displayLevel = 0 THEN RootFill
  ELSE LET i == jsRem(displayLevel - 1, Len(levelColors))
       IN IF i \in 0..(Len(levelColors) - 1) THEN levelColors[i + 1] ELSE "#E3F2FD"

\* the node shapes of the diagram for a data input: one per entry of the
\* model data, filled through the binding
shapesOf(data) ==
  LET modelData == assignDisplayLevels(data)
  IN [i \in 1..Len(modelData) |->
        [key |-> modelData[i].key,
         displayLevel |-> modelData[i].displayLevel,
         fill |-> fill(modelData[i].displayLevel)]]

\* node lists of n nodes with keys 1..n, node 1 the root, every other node
\* hanging under one of the two nodes before it
RenderLists(n) ==
  { [k \in 1..n |-> IF k = 1 THEN [key |-> 1, name |-> DepthName(1)]
                    ELSE [key |-> k, name |-> DepthName(k), parent |-> Max(1, k - up[k])]]
    : up \in [1..n -> {1, 2}] }

RenderIdle ==
  /\ renderData = <<>>
  /\ renderShapes = <<>>

RenderInit ==
  /\ \E n \in 1..MaxRenderNodes : renderData \in RenderLists(n)
  /\ renderShapes = <<>>

\* updateDiagram(data), then the bindings of the node template
RenderDiagram ==
  /\ renderShapes = <<>>
  /\ renderShapes' = shapesOf(renderData)
  /\ UNCHANGED renderData

RenderNext ==
  RenderDiagram /\ UNCHANGED <<genVars, depthVars, editVars, levelVars, storeVars, mainVars>>

----------------------------------------------------------------------------
(* Main page: MainPage *)

SlipIncident ==
  <<"E", "m", "p", "l", "o", "y", "e", "e", " ", "s", "l", "i", "p", "p",
    "e", "d", " ", "o", "n", " ", "w", "e", "t", " ", "f", "l", "o", "o",
    "r", " ", "n", "e", "a", "r", " ", "l", "o", "a", "d", "i", "n", "g",
    " ", "d", "o", "c", "k", " ", "e", "n", "t", "r", "a", "n", "c", "e",
    " ", "d", "u", "r", "i", "n", "g", " ", "m", "o", "r", "n", "i", "n",
    "g", " ", "d", "e", "l", "i", "v", "e", "r", "y">>

FireIncident ==
  <<"F", "i", "r", "e", " ", "s", "t", "a", "r", "t", "e", "d", " ", "i",
    "n", " ", "e", "l", "e", "c", "t", "r", "i", "c", "a", "l", " ", "c",
    "o", "n", "t", "r", "o", "l", " ", "p", "a", "n", "e", "l", " ", "d",
    "u", "e", " ", "t", "o", " ", "o", "v", "e", "r", "l", "o", "a", "d",
    "e", "d", " ", "c", "i", "r", "c", "u", "i", "t", " ", "d", "u", "r",
    "i", "n", "g", " ", "n", "i", "g", "h", "t", " ", "s", "h", "i", "f",
    "t", " ", "o", "p", "e", "r", "a", "t", "i", "o", "n", "s">>

\* sampleData of fillSampleData: the incident text and level of each sample
\* (of the two samples with level 4 the first is kept)
sampleData ==
  [slip |-> [incident |-> SlipIncident, level |-> 3],
   fire |-> [incident |-> FireIncident, level |-> 4]]

\* what the user types into the incident control
MainTexts == EditDescriptions

\* the values of levelOptions
MainLevels == MainMinLevel..MainMaxLevel

SavedMessage == "Incident analysis saved successfully!"

\* resetForm: the form controls and fields it writes
resetForm(page) ==
  [page EXCEPT !.incident = <<>>, !.level = MainMinLevel, !.diagramData = <<>>,
               !.showDiagram = FALSE, !.errorMessage = "", !.successMessage = ""]

\* the page after its constructor and ngOnInit.  generations counts the
\* generateDiagram results delivered so far.
NewMainPage ==
  [incident |-> <<>>, level |-> MainMinLevel, diagramData |-> <<>>,
   showDiagram |-> FALSE, isGenerating |-> FALSE, isSaving |-> FALSE,
   errorMessage |-> "", successMessage |-> "", generations |-> 0]

\* canGenerate, the getter kept for the template's Generate button
canGenerate == incidentFormValid(mainPage.incident, mainPage.level) /\ ~mainPage.isGenerating

\* canSave, the getter kept for the template's Save button
canSave ==
  /\ incidentFormValid(mainPage.incident, mainPage.level)
  /\ Len(mainPage.diagramData) > 0
  /\ ~mainPage.isSaving

mapLevelToAnalysisLevel(level) ==
  IF level = 4 THEN LevelLabels[4]
  ELSE IF level = 5 THEN LevelLabels[5]
  ELSE Level3Basic

\* a delayed request or timer of the page: generateDiagram (1500 ms),
\* saveIncident (500 ms), the setTimeout of fillSampleData (500 ms) and the
\* setTimeout of the save's next callback (2000 ms).  due: the time left
\* until it runs; nodes: the list a generation delivers or the list displayed
\* when Save was clicked; label: the analysisLevel of the save; stamp:
\* page.generations when the reset was scheduled.
mainTask(kind, delay, nodes, label, stamp) ==
  [kind |-> kind, due |-> delay, nodes |-> nodes, label |-> label, stamp |-> stamp]

\* mainTasks is in start order.  A task runs when its time is up, after the
\* tasks started before it whose time is up as well
mainReady(i) ==
  /\ mainTasks[i].due = 0
  /\ \A j \in 1..(i - 1) : mainTasks[j].due > 0

mainDid(op, id, nodes, legend, stamp) ==
  [op |-> op, id |-> id, nodes |-> nodes, legend |-> legend, stamp |-> stamp]

\* the user types an incident text
SetIncident ==
  /\ mainOps < MaxMainOps
  /\ \E t \in MainTexts :
       /\ t # mainPage.incident
       /\ mainPage' = [mainPage EXCEPT !.incident = t]
  /\ mainLast' = mainDid("type", 0, <<>>, <<>>, 0)
  /\ mainOps' = mainOps + 1
  /\ UNCHANGED <<mainTasks, incidentsData>>

\* the user picks a level
SetLevel ==
  /\ mainOps < MaxMainOps
  /\ \E l \in MainLevels :
       /\ l # mainPage.level
       /\ mainPage' = [mainPage EXCEPT !.level = l]
  /\ mainLast' = mainDid("level", 0, <<>>, <<>>, 0)
  /\ mainOps' = mainOps + 1
  /\ UNCHANGED <<mainTasks, incidentsData>>

\* onGenerateDiagram, as a function from the page to the page and the tasks
onGenerateDiagram ==
  IF ~incidentFormValid(mainPage.incident, mainPage.level)
  THEN UNCHANGED <<mainPage, mainTasks>>
  ELSE /\ mainPage' = [mainPage EXCEPT !.isGenerating = TRUE,
                                       !.errorMessage = "", !.successMessage = ""]
       /\ mainTasks' = Append(mainTasks,
            mainTask("generate", 1500,
                     fakeApiCall(mainPage.incident, repositoryLevel(mainPage.level)),
                     <<>>, 0))

\* the Generate button, enabled while canGenerate
GenerateClick ==
  /\ mainOps < MaxMainOps
  /\ canGenerate
  /\ onGenerateDiagram
  /\ mainLast' = mainDid("generate", 0, <<>>, <<>>, 0)
  /\ mainOps' = mainOps + 1
  /\ UNCHANGED incidentsData

\* fillSampleData(type)
FillSampleData ==
  /\ mainOps < MaxMainOps
  /\ \E type \in DOMAIN sampleData :
       mainPage' = [mainPage EXCEPT !.incident = sampleData[type].incident,
                                    !.level = sampleData[type].level]
  /\ mainTasks' = Append(mainTasks, mainTask("sample", 500, <<>>, <<>>, 0))
  /\ mainLast' = mainDid("sample", 0, <<>>, <<>>, 0)
  /\ mainOps' = mainOps + 1
  /\ UNCHANGED incidentsData

\* the setTimeout callback of fillSampleData
SampleTimerFire ==
  /\ \E i \in 1..Len(mainTasks) :
       /\ mainReady(i)
       /\ mainTasks[i].kind = "sample"
       /\ IF incidentFormValid(mainPage.incident, mainPage.level)
          THEN /\ mainPage' = [mainPage EXCEPT !.isGenerating = TRUE,
                                               !.errorMessage = "", !.successMessage = ""]
               /\ mainTasks' = Append(splice(mainTasks, i),
                    mainTask("generate", 1500,
                             fakeApiCall(mainPage.incident, repositoryLevel(mainPage.level)),
                             <<>>, 0))
          ELSE /\ mainTasks' = splice(mainTasks, i)
               /\ UNCHANGED mainPage
  /\ mainLast' = mainDid("sampleTimer", 0, <<>>, <<>>, 0)
  /\ UNCHANGED <<mainOps, incidentsData>>

\* the next callback of onGenerateDiagram
GenerateResolved ==
  /\ \E i \in 1..Len(mainTasks) :
       /\ mainReady(i)
       /\ mainTasks[i].kind = "generate"
       /\ mainPage' = [mainPage EXCEPT !.diagramData = mainTasks[i].nodes,
                                       !.showDiagram = TRUE,
                                       !.isGenerating = FALSE,
                                       !.generations = @ + 1]
       /\ mainLast' = mainDid("generated", 0, mainTasks[i].nodes, <<>>, 0)
       /\ mainTasks' = splice(mainTasks, i)
  /\ UNCHANGED <<mainOps, incidentsData>>

\* the Save button, enabled while canSave: onSaveIncident
SaveClick ==
  /\ mainOps < MaxMainOps
  /\ canSave
  /\ mainPage' = [mainPage EXCEPT !.isSaving = TRUE,
                                  !.errorMessage = "", !.successMessage = ""]
  /\ mainTasks' = Append(mainTasks,
       mainTask("save", 500, mainPage.diagramData,
                mapLevelToAnalysisLevel(mainPage.level), 0))
  /\ mainLast' = mainDid("save", 0, <<>>, <<>>, 0)
  /\ mainOps' = mainOps + 1
  /\ UNCHANGED incidentsData

\* saveIncident takes effect in the repository, then the next callback of
\* onSaveIncident
SaveResolved ==
  /\ \E i \in 1..Len(mainTasks) :
       /\ mainReady(i)
       /\ mainTasks[i].kind = "save"
       /\ LET r == saveIncident(incidentsData, mainTasks[i].label)
          IN /\ incidentsData' = r.data
             /\ mainLast' = mainDid("saved", r.id, mainTasks[i].nodes, <<>>, 0)
       /\ mainPage' = [mainPage EXCEPT !.isSaving = FALSE,
                                       !.successMessage = SavedMessage]
       /\ mainTasks' = Append(splice(mainTasks, i),
                              mainTask("reset", 2000, <<>>, <<>>, mainPage.generations))
  /\ UNCHANGED mainOps

\* the setTimeout callback of the save: resetForm
ResetTimerFire ==
  /\ \E i \in 1..Len(mainTasks) :
       /\ mainReady(i)
       /\ mainTasks[i].kind = "reset"
       /\ mainLast' = mainDid("resetTimer", 0, <<>>, <<>>, mainTasks[i].stamp)
       /\ mainTasks' = splice(mainTasks, i)
  /\ mainPage' = resetForm(mainPage)
  /\ UNCHANGED <<mainOps, incidentsData>>

\* onNewAnalysis
NewAnalysis ==
  /\ mainOps < MaxMainOps
  /\ mainPage' = resetForm(mainPage)
  /\ mainLast' = mainDid("new", 0, <<>>, <<>>, 0)
  /\ mainOps' = mainOps + 1
  /\ UNCHANGED <<mainTasks, incidentsData>>

\* level || 5
levelOrFive(level) == IF level = 0 THEN 5 ELSE level

\* generateLegendItems(maxUserLevel): one entry per user level 1..maxUserLevel
generateLegendItems(maxUserLevel) ==
  [userLevel \in 1..maxUserLevel |->
     [depth |-> userLevel,
      color |-> levelColors[jsRem(userLevel - 1, Len(levelColors)) + 1]]]

\* the legend of printDiagram(incident, level): the root entry, then the
\* entries of generateLegendItems
printLegend(level) ==
  <<[depth |-> 0, color |-> RootFill]>> \o generateLegendItems(levelOrFive(level))

\* onExportDiagram while the diagram component shows the page's list:
\* printDiagram(incident, level) with the form's values
ExportDiagram ==
  /\ mainOps < MaxMainOps
  /\ mainPage.showDiagram
  /\ Len(mainPage.diagramData) > 0
  /\ mainLast' = mainDid("print", 0, mainPage.diagramData, printLegend(mainPage.level), 0)
  /\ mainOps' = mainOps + 1
  /\ UNCHANGED <<mainPage, mainTasks, incidentsData>>

\* 500 ms pass while no task is due; the user acts at any of these instants
PassTime ==
  /\ mainTasks # <<>>
  /\ \A i \in 1..Len(mainTasks) : mainTasks[i].due > 0
  /\ mainTasks' = [i \in 1..Len(mainTasks) |->
                     [mainTasks[i] EXCEPT !.due = @ - 500]]
  /\ mainLast' = mainDid("wait", 0, <<>>, <<>>, 0)
  /\ UNCHANGED <<mainPage, mainOps, incidentsData>>

MainNext ==
  \/ PassTime /\ UNCHANGED <<genVars, depthVars, editVars, levelVars, renderVars, storeTasks, storeLast, storeOps>>
  \/ SetIncident /\ UNCHANGED <<genVars, depthVars, editVars, levelVars, renderVars, storeTasks, storeLast, storeOps>>
  \/ SetLevel /\ UNCHANGED <<genVars, depthVars, editVars, levelVars, renderVars, storeTasks, storeLast, storeOps>>
  \/ GenerateClick /\ UNCHANGED <<genVars, depthVars, editVars, levelVars, renderVars, storeTasks, storeLast, storeOps>>
  \/ FillSampleData /\ UNCHANGED <<genVars, depthVars, editVars, levelVars, renderVars, storeTasks, storeLast, storeOps>>
  \/ SampleTimerFire /\ UNCHANGED <<genVars, depthVars, editVars, levelVars, renderVars, storeTasks, storeLast, storeOps>>
  \/ GenerateResolved /\ UNCHANGED <<genVars, depthVars, editVars, levelVars, renderVars, storeTasks, storeLast, storeOps>>
  \/ SaveClick /\ UNCHANGED <<genVars, depthVars, editVars, levelVars, renderVars, storeTasks, storeLast, storeOps>>
  \/ SaveResolved /\ UNCHANGED <<genVars, depthVars, editVars, levelVars, renderVars, storeTasks, storeLast, storeOps>>
  \/ ResetTimerFire /\ UNCHANGED <<genVars, depthVars, editVars, levelVars, renderVars, storeTasks, storeLast, storeOps>>
  \/ NewAnalysis /\ UNCHANGED <<genVars, depthVars, editVars, levelVars, renderVars, storeTasks, storeLast, storeOps>>
  \/ ExportDiagram /\ UNCHANGED <<genVars, depthVars, editVars, levelVars, renderVars, storeTasks, storeLast, storeOps>>

MainInit ==
  /\ mainPage = NewMainPage
  /\ mainTasks = <<>>
  /\ mainLast = mainDid("none", 0, <<>>, <<>>, 0)
  /\ mainOps = 0

InitDepth == GenIdle /\ DepthInit /\ EditInit /\ LevelIdle /\ StoreInit /\ RenderIdle /\ MainInit

SpecDepth == InitDepth /\ [][DepthNext]_vars

InitGen == GenInit /\ DepthIdle /\ EditInit /\ LevelIdle /\ StoreInit /\ RenderIdle /\ MainInit

SpecGen == InitGen /\ [][GenNext]_vars

Init == GenIdle /\ DepthIdle /\ EditInit /\ LevelIdle /\ StoreInit /\ RenderIdle /\ MainInit

InitLevel == GenIdle /\ DepthIdle /\ EditInit /\ LevelIdle /\ StoreInit /\ RenderIdle /\ MainInit

SpecLevel == InitLevel /\ [][LevelNext]_vars

InitStore == GenIdle /\ DepthIdle /\ EditInit /\ LevelIdle /\ StoreInit /\ RenderIdle /\ MainInit

SpecStore == InitStore /\ [][StoreNext]_vars

InitRender == GenIdle /\ DepthIdle /\ EditInit /\ LevelIdle /\ StoreInit /\ RenderInit /\ MainInit

SpecRender == InitRender /\ [][RenderNext]_vars

InitMain == GenIdle /\ DepthIdle /\ EditInit /\ LevelIdle /\ StoreInit /\ RenderIdle /\ MainInit

SpecMain == InitMain /\ [][MainNext]_vars

Next ==
  \/ Open /\ UNCHANGED <<genVars, depthVars, levelVars, storeVars, renderVars, mainVars>>
  \/ CloseModal /\ UNCHANGED <<genVars, depthVars, levelVars, storeVars, renderVars, mainVars>>
  \/ ReadCanRegenerate /\ UNCHANGED <<genVars, depthVars, levelVars, storeVars, renderVars, mainVars>>
  \/ SetDescription /\ UNCHANGED <<genVars, depthVars, levelVars, storeVars, renderVars, mainVars>>
  \/ ChangeLevel /\ UNCHANGED <<genVars, depthVars, levelVars, storeVars, renderVars, mainVars>>
  \/ LevelTimerFire /\ UNCHANGED <<genVars, depthVars, levelVars, storeVars, renderVars, mainVars>>
  \/ RegenerateClick /\ UNCHANGED <<genVars, depthVars, levelVars, storeVars, renderVars, mainVars>>
  \/ RegenerateComplete /\ UNCHANGED <<genVars, depthVars, levelVars, storeVars, renderVars, mainVars>>
  \/ StartEditingNode /\ UNCHANGED <<genVars, depthVars, levelVars, storeVars, renderVars, mainVars>>
  \/ StopEditingNode /\ UNCHANGED <<genVars, depthVars, levelVars, storeVars, renderVars, mainVars>>
  \/ UpdateNodeText /\ UNCHANGED <<genVars, depthVars, levelVars, storeVars, renderVars, mainVars>>
  \/ AddNewNode /\ UNCHANGED <<genVars, depthVars, levelVars, storeVars, renderVars, mainVars>>
  \/ RemoveNode /\ UNCHANGED <<genVars, depthVars, levelVars, storeVars, renderVars, mainVars>>

Spec == Init /\ [][Next]_vars

----------------------------------------------------------------------------
(* Properties of the generator *)

parentless(nodes) == {i \in 1..Len(nodes) : hasNoParent(nodes[i])}

\* the counts the specification states, written out independently of the model
expectedFirst(level) == IF level + 2 < 5 THEN level + 2 ELSE 5

expectedSecond(level) ==
  IF level >= 2
  THEN (IF expectedFirst(level) * 2 < 6 THEN expectedFirst(level) * 2 ELSE 6)
  ELSE 0

\* C1: every list returned by generate has exactly one node with no parent,
\* and that node is the first element, with key 1.
GenSingleRoot ==
  genOut # <<>> =>
    /\ parentless(genOut) = {1}
    /\ genOut[1].key = 1

GenSingleRootWitness ==
  /\ genOut # <<>>
  /\ genLevel = 5
  /\ Len(genOut) = 12
  /\ Len(genIncident) > 30

\* C2: generate creates exactly min(5, level + 2) first-layer nodes, in the
\* order of the category list, each with parent 1, with keys 2, 3, ...; the
\* keys of the whole list are strictly increasing; level 3 gives 12 nodes.
GenFirstLayer ==
  genOut # <<>> =>
    LET n1 == expectedFirst(genLevel) IN
    /\ {i \in 1..Len(genOut) : parentOf(genOut[i]) = 1} = 2..(n1 + 1)
    /\ \A i \in 2..(n1 + 1) :
         /\ genOut[i].key = i
         /\ genOut[i].name = level1Names[i - 1]
    /\ \A i \in 1..(Len(genOut) - 1) : genOut[i].key < genOut[i + 1].key
    /\ (genLevel = 3 => n1 = 5 /\ Len(genOut) = 12)

GenFirstLayerWitness ==
  /\ genOut # <<>>
  /\ genLevel = 3
  /\ Cardinality({i \in 1..Len(genOut) : parentOf(genOut[i]) = 1}) = 5
  /\ Len(genOut) = 12

\* C3: second-layer nodes exist only when level >= 2; there are then
\* min(firstLayerCount * 2, 6) of them and the i-th (0-based) has parent
\* firstLayerKeys[i mod firstLayerCount]; for level 1 no node has a
\* first-layer node as parent.
GenSecondLayer ==
  genOut # <<>> =>
    LET n1 == expectedFirst(genLevel)
        n2 == expectedSecond(genLevel)
        second == {i \in 1..Len(genOut) :
                     ~hasNoParent(genOut[i]) /\ parentOf(genOut[i]) # 1}
    IN
    /\ second = (n1 + 2)..(n1 + 1 + n2)
    /\ Len(genOut) = 1 + n1 + n2
    /\ \A i \in 0..(n2 - 1) :
         parentOf(genOut[n1 + 2 + i]) = genOut[2 + (i % n1)].key
    /\ (genLevel = 1 => second = {})

GenSecondLayerWitness ==
  /\ genOut # <<>>
  /\ genLevel = 2
  /\ Len(genOut) = 11
  /\ parentOf(genOut[10]) = 2

GenSecondLayerNoneWitness ==
  /\ genOut # <<>>
  /\ genLevel = 1
  /\ Len(genOut) = 4

\* C4: the root name is the incident text unmodified when the text has at
\* most 30 characters, and otherwise has exactly 30 characters: the first 27
\* of the text followed by the 3-character ellipsis marker.
GenRootName ==
  genOut # <<>> =>
    LET name == genOut[1].name IN
    IF Len(genIncident) <= 30
    THEN name = genIncident
    ELSE /\ Len(name) = 30
         /\ \A i \in 1..27 : name[i] = genIncident[i]
         /\ \A i \in 28..30 : name[i] = "."

GenRootNameWitness ==
  /\ genOut # <<>>
  /\ Len(genIncident) = 31
  /\ Len(genOut[1].name) = 30
  /\ genOut[1].name[27] # "."

GenRootNameBoundaryWitness ==
  /\ genOut # <<>>
  /\ Len(genIncident) = 30
  /\ genOut[1].name = genIncident

\* the number of parent links from the node with key k up to a node with no
\* parent, or -1 when the walk meets a missing key or does not end in
\* `fuel` steps
RECURSIVE stepsToRoot(_, _, _)
stepsToRoot(nodes, k, fuel) ==
  LET at == {i \in 1..Len(nodes) : nodes[i].key = k} IN
  IF at = {} \/ fuel < 0 THEN -1
  ELSE LET node == nodes[CHOOSE i \in at : TRUE] IN
       IF hasNoParent(node) THEN 0
       ELSE LET up == stepsToRoot(nodes, node.parent, fuel - 1) IN
            IF up < 0 THEN -1 ELSE up + 1

\* C5: in every generated list the keys are pairwise distinct, every parent
\* is the key of a node of the list, and the parent links lead from every
\* node to the root in as many steps as the node's layer (0, 1 or 2).
GenWellFormed ==
  genOut # <<>> =>
    LET n1 == expectedFirst(genLevel) IN
    /\ \A i, j \in 1..Len(genOut) : genOut[i].key = genOut[j].key => i = j
    /\ \A i \in 1..Len(genOut) :
         hasNoParent(genOut[i]) \/ parentOf(genOut[i]) \in keysOf(genOut)
    /\ \A i \in 1..Len(genOut) :
         stepsToRoot(genOut, genOut[i].key, Len(genOut)) =
           (IF i = 1 THEN 0 ELSE IF i <= n1 + 1 THEN 1 ELSE 2)

GenWellFormedWitness ==
  /\ genOut # <<>>
  /\ genLevel = 4
  /\ stepsToRoot(genOut, genOut[Len(genOut)].key, Len(genOut)) = 2

----------------------------------------------------------------------------
(* Properties of the depth assigner *)

\* keys reachable from the keys in `seen` through parent-to-child edges
RECURSIVE reachableFrom(_, _)
reachableFrom(nodes, seen) ==
  LET more == {nodes[i].key : i \in {j \in 1..Len(nodes) : parentOf(nodes[j]) \in seen}}
  IN IF more \subseteq seen THEN seen ELSE reachableFrom(nodes, seen \cup more)

\* the first node of the list that has no parent, as a set of indexes
locatedRoot(nodes) ==
  {i \in 1..Len(nodes) :
     hasNoParent(nodes[i]) /\ \A j \in 1..(i - 1) : ~hasNoParent(nodes[j])}

\* C8: the depth assigner gives depth 0 to the parentless node it locates
\* and to every node that is not reachable from it through parent-to-child
\* edges, and returns exactly one entry per input node, with the node's key,
\* name and parent (or absence of parent) unchanged.
DepthTotal ==
  depthDone =>
    LET reach == IF locatedRoot(depthIn) = {} THEN {}
                 ELSE reachableFrom(depthIn,
                        {depthIn[i].key : i \in locatedRoot(depthIn)})
    IN
    /\ Len(depthOut) = Len(depthIn)
    /\ \A i \in 1..Len(depthIn) :
         \E j \in 1..Len(depthOut) :
           /\ depthOut[j].key = depthIn[i].key
           /\ depthOut[j].name = depthIn[i].name
           /\ DOMAIN depthOut[j] = DOMAIN depthIn[i] \cup {"displayLevel"}
           /\ parentOf(depthOut[j]) = parentOf(depthIn[i])
           /\ (i \in locatedRoot(depthIn) => depthOut[j].displayLevel = 0)
           /\ (depthIn[i].key \notin reach => depthOut[j].displayLevel = 0)

\* a list with a root, a child of it, and a fragment hanging on a missing key
DepthTotalWitness ==
  /\ depthDone
  /\ Len(depthIn) = 4
  /\ \E i, j, k \in 1..Len(depthOut) :
       /\ hasNoParent(depthOut[i]) /\ depthOut[i].displayLevel = 0
       /\ parentOf(depthOut[j]) = depthOut[i].key /\ depthOut[j].displayLevel = 1
       /\ parentOf(depthOut[k]) = 5 /\ depthOut[k].displayLevel = 0

----------------------------------------------------------------------------
(* Properties of the editor *)

\* C7: on every node list the editor can hold (loaded from a persisted
\* diagram, generated, edited), the depth assigner gives every node that has
\* a parent the depth of its parent plus one.
DepthMonotone ==
  LET out == assignDisplayLevels(diagramData) IN
  \A i \in 1..Len(out) :
    ~hasNoParent(out[i]) =>
      \E j \in 1..Len(out) :
        /\ out[j].key = parentOf(out[i])
        /\ out[i].displayLevel = out[j].displayLevel + 1

\* an edited list: a node was added, a subtree was removed, and a node of
\* depth 2 is left
DepthMonotoneWitness ==
  /\ lastOp.op = "remove"
  /\ \E i \in 1..Len(diagramData) : diagramData[i].name = PlaceholderName
  /\ \E i \in 1..Len(diagramData) :
       assignDisplayLevels(diagramData)[i].displayLevel = 2

\* the keys on the parent chain of the node with key `key`, the key included
RECURSIVE chainOf(_, _, _)
chainOf(nodes, key, fuel) ==
  LET at == {i \in 1..Len(nodes) : nodes[i].key = key} IN
  IF at = {} \/ fuel = 0 THEN {key}
  ELSE LET node == nodes[CHOOSE i \in at : TRUE] IN
       IF hasNoParent(node) THEN {key}
       ELSE {key} \cup chainOf(nodes, node.parent, fuel - 1)

\* the keys of the nodes whose parent chain passes through k
subtreeOf(nodes, k) ==
  {nodes[i].key : i \in {j \in 1..Len(nodes) : k \in chainOf(nodes, nodes[j].key, Len(nodes))}}

\* C9: removeNode(k) removes, in one update, exactly k and every node whose
\* parent chain passes through k: the list that is left has the original
\* size minus the size of that subtree, and holds the other nodes unchanged
\* and in their original order.
RemoveCascade ==
  [][\A k \in keysOf(diagramData) :
       (lastOp'.op = "remove" /\ removeNode(k)) =>
         /\ k \in subtreeOf(diagramData, k)
         /\ diagramData' = SelectSeq(diagramData, LAMBDA n : n.key \notin subtreeOf(diagramData, k))
         /\ Len(diagramData') = Len(diagramData) - Cardinality(subtreeOf(diagramData, k))]_vars

\* a removal that took grandchildren along: the generated root is left
\* without node 2 and without the second-layer nodes below node 2
RemoveCascadeWitness ==
  /\ lastOp.op = "remove"
  /\ Len(diagramData) = 9
  /\ diagramData[1].key = 1
  /\ keysOf(diagramData) = {1, 3, 4, 5, 6, 8, 9, 10, 11}

allWhitespace(t) == \A i \in 1..Len(t) : t[i] \in {" ", "\t"}

\* C10: rename with a text that is empty after trimming fails with the
\* validation error and changes neither the node list nor the key of the
\* node being edited.
RenameBlankRejected ==
  [][\A k \in keysOf(diagramData), t \in RenameTexts :
       (allWhitespace(t) /\ lastOp'.op = "rename" /\ lastOp'.text = t) =>
         /\ diagramData' = diagramData
         /\ editingNodeId' = editingNodeId
         /\ diagramError' = "Node text cannot be empty."]_vars

\* a rename with white space only was refused while a node was being edited
RenameBlankRejectedWitness ==
  /\ lastOp.op = "rename"
  /\ lastOp.text # <<>>
  /\ allWhitespace(lastOp.text)
  /\ diagramError = "Node text cannot be empty."
  /\ editingNodeId # NoKey
  /\ editingNodeId \in keysOf(diagramData)

\* the text between its first and its last character that is not white space
core(t) ==
  LET solid == {i \in 1..Len(t) : t[i] \notin {" ", "\t"}} IN
  IF solid = {} THEN <<>>
  ELSE SubSeq(t, CHOOSE a \in solid : \A i \in solid : a <= i,
                 CHOOSE b \in solid : \A i \in solid : i <= b)

\* C11: rename(key, newName) with a non-blank newName gives the node with
\* that key the trimmed text as its name, leaves every node's key and parent,
\* every other node's name and the order and length of the list unchanged,
\* and exits edit mode.
RenameFrame ==
  [][\A k \in keysOf(diagramData), t \in RenameTexts :
       (~allWhitespace(t) /\ lastOp'.op = "rename" /\ lastOp'.text = t
          /\ updateNodeText(k, t)) =>
         /\ Len(diagramData') = Len(diagramData)
         /\ \A i \in 1..Len(diagramData) :
              /\ diagramData'[i].key = diagramData[i].key
              /\ DOMAIN diagramData'[i] = DOMAIN diagramData[i]
              /\ parentOf(diagramData'[i]) = parentOf(diagramData[i])
              /\ diagramData'[i].name =
                   (IF diagramData[i].key = k THEN core(t) ELSE diagramData[i].name)
         /\ editingNodeId' = NoKey]_vars

\* node 2 of a loaded diagram was renamed while some node was being edited
RenameFrameWitness ==
  /\ lastOp.op = "rename"
  /\ lastOp.text = <<" ", "o", "k", " ">>
  /\ editingNodeId = NoKey
  /\ Len(diagramData) = 7
  /\ diagramData[2].name = <<"o", "k">>
  /\ diagramData[1].name = Diagram1Names[1]
  /\ ops = 2

\* C12: addNode appends exactly one node, with key max(existing keys) + 1
\* (1 when the list is empty), the placeholder name and no parent, leaves the
\* existing nodes unchanged and puts the new node in edit mode.
AddNodeAppends ==
  [][lastOp'.op = "add" =>
       LET keys == keysOf(diagramData)
           top == IF keys = {} THEN 0
                  ELSE CHOOSE m \in keys : \A k \in keys : k <= m
           n == Len(diagramData) + 1
       IN /\ Len(diagramData') = n
          /\ SubSeq(diagramData', 1, n - 1) = diagramData
          /\ diagramData'[n].key = top + 1
          /\ diagramData'[n].name = PlaceholderName
          /\ hasNoParent(diagramData'[n])
          /\ editingNodeId' = top + 1]_vars

\* a node was added to the list of an incident that had no diagram
AddNodeAppendsWitness ==
  /\ lastOp.op = "add"
  /\ Len(diagramData) = 1
  /\ diagramData[1].key = 1
  /\ editingNodeId = 1

\* C13: regenerate(description, level) fails with a validation error and
\* leaves the node list unchanged exactly when the trimmed description has
\* fewer than 10 characters or the level is falsy; otherwise (also for a
\* description of exactly 10 characters) it invokes the generator on the
\* trimmed description and the level of the label with edit mode cleared,
\* and the list the generator returned replaces the whole node list.  Stated
\* for the calls that evaluate the guard on the current values of the form.
RegenerateValidation ==
  [][LET short == formDescription = NullText \/ Len(core(formDescription)) < 10
         falsy == formLevel = NullText \/ formLevel = <<>>
         failed == /\ diagramError' # ""
                   /\ genPending' = genPending
                   /\ diagramData' = diagramData
         invoked == /\ diagramError' = ""
                    /\ editingNodeId' = NoKey
                    /\ genPending' = Append(genPending,
                         generateGenericData(core(formDescription),
                                             extractLevelNumber(formLevel)))
     IN /\ (lastOp'.op = "regenerate" /\ canRegenerateMemo = "unset") =>
             /\ (short \/ falsy) <=> failed
             /\ ~(short \/ falsy) => invoked
        /\ lastOp'.op = "generated" => diagramData' = Head(genPending)]_vars

\* C14: starting from a generated diagram, after any sequence of editor
\* operations (startEdit, stopEdit, rename, addNode, removeNode, regenerate)
\* the node list, as long as it holds a node, has exactly one node with no
\* parent: rootNodesCount = 1.
EditorSingleRoot ==
  (diagramSource = "generated" /\ diagramData # <<>>) =>
    Cardinality(parentless(diagramData)) = 1

distinctKeys(nodes) ==
  \A i, j \in 1..Len(nodes) : nodes[i].key = nodes[j].key => i = j

keySeq(nodes) == [i \in 1..Len(nodes) |-> nodes[i].key]

\* C15: from a list with pairwise distinct keys, addNode, removeNode, rename
\* and regenerate (also addNode after the node with the highest key was
\* removed) give a list with pairwise distinct keys, and addNode, removeNode
\* and rename leave every node that stays in the list its key and its place
\* among the nodes that stay.
KeysStable ==
  [][distinctKeys(diagramData) =>
       /\ distinctKeys(diagramData')
       /\ lastOp'.op \in {"rename", "remove"} =>
            keySeq(diagramData') =
              SelectSeq(keySeq(diagramData), LAMBDA k : k \in keysOf(diagramData'))
       /\ lastOp'.op = "add" =>
            /\ SubSeq(keySeq(diagramData'), 1, Len(diagramData)) = keySeq(diagramData)
            /\ diagramData'[Len(diagramData')].key \notin keysOf(diagramData)]_vars

\* node 7, the highest key of a loaded diagram, was removed and addNode has
\* given its key to the new node
KeysStableWitness ==
  /\ lastOp.op = "add"
  /\ diagramSource = "loaded"
  /\ keySeq(diagramData) = <<1, 2, 3, 4, 5, 6, 7>>
  /\ diagramData[7].name = PlaceholderName
  /\ ~hasNoParent(diagramData[6])

\* every parent is the key of a node of the list and no parent chain comes
\* back to its start
wellLinked(nodes) ==
  /\ \A i \in 1..Len(nodes) :
       hasNoParent(nodes[i]) \/ parentOf(nodes[i]) \in keysOf(nodes)
  /\ \A i \in 1..Len(nodes) : stepsToRoot(nodes, nodes[i].key, Len(nodes)) >= 0

\* C16: from a list without dangling parent reference, addNode, removeNode,
\* rename and regenerate give a list in which every parent is the key of a
\* node of the list and no node is its own ancestor; the key addNode hands
\* out, new or used before, is the parent of no node.
ParentsResolved ==
  [][wellLinked(diagramData) =>
       /\ wellLinked(diagramData')
       /\ lastOp'.op = "add" =>
            \A i \in 1..Len(diagramData') :
              parentOf(diagramData'[i]) # diagramData'[Len(diagramData')].key]_vars

\* node 3 of a loaded diagram was removed with its children 6 and 7, and
\* addNode has handed out key 6 again
ParentsResolvedWitness ==
  /\ lastOp.op = "add"
  /\ diagramSource = "loaded"
  /\ keySeq(diagramData) = <<1, 2, 4, 5, 6>>
  /\ diagramData[5].name = PlaceholderName
  /\ hasNoParent(diagramData[5])
  /\ parentOf(diagramData[4]) = 2

\* C17: whatever level a caller supplies (a form value, or the number
\* parsed from a stored label such as 'Level 7 - x' or 'Level 0 - x'), the
\* level that reaches the generator is min(5, max(1, level)), on every call
\* path: main page, edit modal, store.
LevelClamped ==
  levelCall.reached # Undefined =>
    /\ levelCall.reached >= 1
    /\ levelCall.reached <= 5
    /\ levelCall.reached =
         (IF levelCall.level < 1 THEN 1
          ELSE IF levelCall.level > 5 THEN 5 ELSE levelCall.level)


\* C18: a successful deleteIncident(id) removes exactly the incident with that
\* id and every diagram whose incidentId is id; every other incident and
\* diagram stays in the store, unchanged and in place.
DeleteCascades ==
  [][(storeLast'.op = "deleteIncident" /\ storeLast'.result = "ok") =>
       LET id == storeLast'.id
       IN /\ incidentsData'.incidents =
               SelectSeq(incidentsData.incidents, LAMBDA r : r.id # id)
          /\ Len(incidentsData'.incidents) = Len(incidentsData.incidents) - 1
          /\ incidentsData'.diagrams =
               SelectSeq(incidentsData.diagrams, LAMBDA d : d.incidentId # id)]_vars

\* incident 1 was deleted: its diagram went with it, diagram 2 stayed
DeleteCascadesWitness ==
  /\ storeLast = [op |-> "deleteIncident", id |-> 1, result |-> "ok"]
  /\ findIndex(incidentsData.incidents, 1) = 0
  /\ Len(incidentsData.incidents) = Len(EmbeddedStoreIncidents) - 1
  /\ incidentsData.diagrams = <<EmbeddedDiagram2>>

\* C19: whatever the order in which the delayed repository operations take
\* effect, every diagram in the store has an incidentId that is the id of
\* exactly one incident in the store.
DiagramOwnership ==
  \A i \in 1..Len(incidentsData.diagrams) :
    Cardinality({j \in 1..Len(incidentsData.incidents) :
                   incidentsData.incidents[j].id =
                     incidentsData.diagrams[i].incidentId}) = 1

\* C20: updateIncident or deleteIncident on an incident id that is not in the
\* store, and updateDiagram on a diagram id that is not in the store, end in
\* an error and leave incidents, diagrams and stats as they were.
MissingIdFails ==
  [][/\ (/\ storeLast'.op \in {"updateIncident", "deleteIncident"}
         /\ findIndex(incidentsData.incidents, storeLast'.id) = 0)
        => (storeLast'.result = IncidentNotFound /\ incidentsData' = incidentsData)
     /\ (/\ storeLast'.op = "updateDiagram"
         /\ findIndex(incidentsData.diagrams, storeLast'.id) = 0)
        => (storeLast'.result = DiagramNotFound /\ incidentsData' = incidentsData)]_vars

\* updateIncident met an incident that a deleteIncident had removed
MissingIdFailsWitness ==
  /\ storeLast = [op |-> "updateIncident", id |-> 7, result |-> IncidentNotFound]
  /\ findIndex(incidentsData.incidents, 7) = 0
  /\ incidentsData.stats.total = Len(EmbeddedStoreIncidents) - 1

\* the diagram of the store with the given id
diagramWithId(data, id) == data.diagrams[findIndex(data.diagrams, id)]

\* same nodes in the same order with the same key, name and parent; a node
\* without a parent property has none on the other side either
sameNodes(parsed, nodes) ==
  /\ Len(parsed) = Len(nodes)
  /\ \A i \in 1..Len(nodes) :
       /\ parsed[i].key = nodes[i].key
       /\ parsed[i].name = nodes[i].name
       /\ parentOf(parsed[i]) = parentOf(nodes[i])
       /\ ("parent" \notin DOMAIN nodes[i]) => ("parent" \notin DOMAIN parsed[i])

shapesAt(d) == {i \in 1..Len(renderShapes) : renderShapes[i].displayLevel = d}

\* C23: the fill of a node depends only on its depth: depth 0 has the root
\* colour, which no palette entry equals; depth d >= 1 has entry
\* (d - 1) mod 8 of the palette of 8 colours, so depths d and d + 8 share a
\* colour and depths 1..8 have pairwise different colours.
FillByDepth ==
  /\ Len(levelColors) = 8
  /\ \A i, j \in 1..Len(renderShapes) :
       LET s == renderShapes[i]
           t == renderShapes[j]
       IN /\ s.displayLevel = t.displayLevel => s.fill = t.fill
          /\ s.displayLevel = 0 => (s.fill = "#4A90E2" /\ \A c \in 1..8 : levelColors[c] # s.fill)
          /\ s.displayLevel >= 1 => s.fill = levelColors[((s.displayLevel - 1) % 8) + 1]
          /\ (s.displayLevel >= 1 /\ t.displayLevel = s.displayLevel + 8) => s.fill = t.fill
          /\ (1 <= s.displayLevel /\ s.displayLevel < t.displayLevel /\ t.displayLevel <= 8)
               => s.fill # t.fill

\* a chain drawn down to depth 9: every depth 0..9 has a shape, and the
\* shapes of depths 1 and 9 share the first palette colour
FillByDepthWitness ==
  /\ \A d \in 0..9 : shapesAt(d) # {}
  /\ \E i \in shapesAt(1), j \in shapesAt(9) :
       renderShapes[i].fill = renderShapes[j].fill /\ renderShapes[i].fill = levelColors[1]

\* C25: for every node of the list the editor holds, the depth getNodeLevel
\* finds by walking up the parents is the depth the depth assigner gives the
\* node, and getNodesByLevel puts the node in the bucket of that depth and
\* in no other.
EditorDepthAgrees ==
  LET assigned == assignDisplayLevels(diagramData)
      buckets == getNodesByLevel(diagramData)
  IN \A i \in 1..Len(diagramData) :
       LET node == diagramData[i]
           depth == assigned[mapIndex(assigned, node.key)].displayLevel
       IN /\ getNodeLevel(node, diagramData) = depth
          /\ \A b \in 1..Len(buckets) :
               Len(SelectSeq(buckets[b], LAMBDA n : n = node))
                 = (IF b = depth + 1 THEN 1 ELSE 0)

\* an edited list: a node two levels under the root, and a node made by
\* addNewNode next to the tree
EditorDepthAgreesWitness ==
  /\ lastOp.op = "add"
  /\ \E i \in 1..Len(diagramData) : getNodeLevel(diagramData[i], diagramData) = 2
  /\ Len(getNodesByLevel(diagramData)[1]) = 2

\* C26: while the key of the node being edited is set, a node with that key
\* is in the list.
EditKeyPresent ==
  editingNodeId # NoKey => \E i \in 1..Len(diagramData) : diagramData[i].key = editingNodeId

\* C27: after closeModal the node list stays empty until the next open: a
\* regeneration that was pending when the modal was closed does not write
\* its result into the list afterwards.
ClosedListEmpty == ~isOpen => diagramData = <<>>

\* C28: when onSubmit completes successfully for an incident that has a
\* persisted diagram, the node list stored in that diagram is the editor's
\* node list at the time of the submit, the empty list included.
SubmitStoresList ==
  [][\A i \in 1..Len(storeTasks) :
       LET t == storeTasks[i]
       IN (/\ storeLast'.result = "ok"
           /\ storeTasks' = splice(storeTasks, i)
           /\ \/ (storeLast'.op = "updateIncident" /\ t.op = "updateIncident"
                   /\ t.then = "submit" /\ t.diagramId # 0
                   /\ findIndex(incidentsData'.diagrams, t.diagramId) # 0)
              \/ (storeLast'.op = "updateDiagram" /\ t.op = "updateDiagram"))
          => sameNodes(
               loadDiagramData([diagrams |->
                 <<diagramWithId(incidentsData',
                                 IF t.op = "updateDiagram" THEN t.id ELSE t.diagramId)>>]),
               t.nodes)]_vars

\* the requests of one kind the main page has in flight
inFlight(kind) == {i \in 1..Len(mainTasks) : mainTasks[i].kind = kind}

\* C22: on the main page and in the edit modal at most one generate request
\* and at most one save request is in flight at any time.
SingleFlight ==
  /\ Cardinality(inFlight("generate")) <= 1
  /\ Cardinality(inFlight("save")) <= 1
  /\ Len(genPending) <= 1

\* C24: the legend of the print document has exactly one entry per depth
\* that some node of the rendered diagram has, the root entry included, and
\* none for other depths; each entry has the fill of the nodes of its depth.
LegendMatchesDepths ==
  mainLast.op = "print" =>
    LET shapes == shapesOf(mainLast.nodes)
        present == {shapes[i].displayLevel : i \in 1..Len(shapes)}
        legend == mainLast.legend
    IN /\ {legend[i].depth : i \in 1..Len(legend)} = present
       /\ Len(legend) = Cardinality(present)
       /\ \A i \in 1..Len(legend), j \in 1..Len(shapes) :
            shapes[j].displayLevel = legend[i].depth => shapes[j].fill = legend[i].color

\* C29: once a Save of the main page has completed successfully, the store
\* holds a diagram whose incidentId is the id of the saved incident and
\* whose node list is the diagram displayed when Save was clicked.
SaveStoresDiagram ==
  mainLast.op = "saved" =>
    \E i \in 1..Len(incidentsData.diagrams) :
      /\ incidentsData.diagrams[i].incidentId = mainLast.id
      /\ sameNodes(jsonParse(incidentsData.diagrams[i].diagramJson), mainLast.nodes)

\* C30: the form reset a save scheduled leaves alone a diagram delivered
\* after that save: the list, showDiagram and the incident text stay.
ResetKeepsLaterDiagram ==
  [][(/\ mainLast'.op = "resetTimer"
      /\ mainPage.generations > mainLast'.stamp
      /\ Len(mainPage.diagramData) > 0
      /\ mainPage.showDiagram)
     => (/\ mainPage'.diagramData = mainPage.diagramData
         /\ mainPage'.showDiagram
         /\ mainPage'.incident = mainPage.incident)]_vars

============================================================================
